---- MODULE Spec2Model ----
(***************************************************************************)
(* The experiment orchestrator of exp-X-Monitor: the drivers               *)
(* scripts/cpu-utilization.py, scripts/experiment-throughput.py,           *)
(* scripts/experiment-latency.py and scripts/experiment-sample.py.         *)
(*                                                                         *)
(* A driver is one sequential control thread.  Every function of a script  *)
(* that only calls other functions is an operator giving the sequence of   *)
(* lifecycle calls it makes; every lifecycle call (one subprocess.run, one *)
(* subprocess.Popen, one handler such as stop_bpf_tracepipe) is an action. *)
(* An exception that no handler catches ends the Python process: the       *)
(* driver stops where it is (status = "aborted").  The processes the       *)
(* driver starts act on their own next to it: signalled servers exit, the  *)
(* attached program writes trace entries, a trace reader drains them.      *)
(* Output paths are the token sequences the scripts' f-strings build.      *)
(***************************************************************************)
EXTENDS Integers, Sequences, FiniteSets, TLC

VARIABLES
    cfg,            \* the configuration globals of the script that runs
    cells,          \* the cells of the matrix not started yet
    cur,            \* the cell being run
    todo,           \* the lifecycle calls of the current cell still to make
    calls,          \* the lifecycle calls made so far in the current cell
    status,         \* "running", "done" (main returned), "aborted" (exception)
    raised,         \* the call whose exception ended the run, or "none"
    completed,      \* number of cells whose last call has returned
    db,             \* number of database instances running (0: none)
    netdata,        \* configuration the monitoring agent runs with, or NoAgent
    xdp,            \* attached instrumentation program: "none", "user", "kernel"
    client,         \* detached monitoring client: "none", "netdata", "xmon"
    sampler,        \* auxiliary statistics sampler (stats/INFO loop) running
    loadgen,        \* detached load generator run phase running
    TRACE_READERS,  \* cpu-utilization.py: registry of open trace readers
    handled,        \* what the last stop_bpf_tracepipe left of each reader
    stopping,       \* servers were sent a signal and have not exited yet
    tracing_on,     \* tracing_on of the kernel trace buffer
    trace,          \* entries in the trace ring buffer: "stale" (recorded
                    \* before the current cell began) and "fresh"
    fs,             \* files opened for writing: path -> [writes, cells]
    dirs,           \* directories created
    timestamp,      \* the module-level timestamp, taken when the script loads
    now,            \* the wall clock, in the same unit
    plot,           \* what the plotting scripts found and selected
    failed,         \* remote commands that failed to connect: [cell, op]
    stdin,          \* what the last monitoring client was given on standard input
    conf,           \* configuration files installed for the monitoring agent
    c_file,         \* lines of the kernel-program source file load_xdp patches
    f_lines,        \* lines of the file a plotting script reads
    result,         \* what the plotting function returned
    warned          \* warnings log_to_slack printed: notifications that failed

vars == <<cfg, cells, cur, todo, calls, status, raised, completed, db, netdata,
          xdp, client, sampler, loadgen, TRACE_READERS, handled, stopping,
          tracing_on, trace, fs, dirs, timestamp, now, plot, failed, warned, result, f_lines, c_file, conf, stdin>>

---------------------------------------------------------------------------
(* Bounds of the model *)

\* num_instances is modelled as 1..MaxInstances
MaxInstances == 1
\* intervals is modelled as a list of MaxIntervals entries
MaxIntervals == 1
\* cnts, the repeat count of experiment-throughput.py (5 in the source)
MaxCnts == 2
\* calls made in the specification that calls the trace functions freely
MaxCalls == 3
\* the script is loaded at a wall-clock time in 0..MaxStart
MaxStart == 1
\* connections to the remote host that fail in one run
MaxFailures == 1

---------------------------------------------------------------------------
(* The run matrix *)

RECURSIVE Flatten(_)
Flatten(ss) == IF ss = <<>> THEN <<>> ELSE Head(ss) \o Flatten(Tail(ss))

\* A Python number as the scripts write it: the int n, or the float whose
\* decimal numeral is whole.frac (frac: its digits, the last one not 0)
py_int(n) == [type |-> "int", whole |-> n, frac |-> <<>>]

py_float(whole, frac) == [type |-> "float", whole |-> whole, frac |-> frac]

NoCell == [method |-> "idle", metric |-> "none", n |-> 0, interval |-> py_int(0),
           cnt |-> 0, mkdir |-> FALSE]

NoAgent == [n |-> 0, metric |-> "none"]

\* no plotting function has returned
NoResult == [fn |-> "none", value |-> <<>>]

\* no plotting script has run
NoPlot == [files |-> <<>>, stage |-> "none", interval |-> py_int(0),
           selected |-> <<>>, xmon |-> <<>>, netdata |-> <<>>]

num_instances == [i \in 1..MaxInstances |-> i]

\* intervals = [1, 0.5, 0.001], of which the first MaxIntervals
intervals ==
    LET all == <<py_int(1), py_float(0, <<5>>), py_float(0, <<0, 0, 1>>)>>
    IN  SubSeq(all, 1, IF MaxIntervals < Len(all) THEN MaxIntervals
                       ELSE Len(all))

metrics(script) ==
    IF script = "lat" THEN <<"kernel", "user">> ELSE <<"user", "kernel">>

\* for metric in metrics: for num_instance in num_instances:
\*   make_output_dir; for interval in intervals: <cell>
MethodCells(script, method, cnt) ==
    Flatten([m \in 1..Len(metrics(script)) |->
      Flatten([i \in 1..Len(num_instances) |->
        [k \in 1..Len(intervals) |->
           [method |-> method, metric |-> metrics(script)[m],
            n |-> num_instances[i], interval |-> intervals[k],
            cnt |-> cnt, mkdir |-> (k = 1)]]])])

no_monitoring(cnt) ==
    [i \in 1..Len(num_instances) |->
       [method |-> "none", metric |-> "none", n |-> num_instances[i],
        interval |-> py_int(0), cnt |-> cnt, mkdir |-> TRUE]]

netdata_monitoring(script, cnt) == MethodCells(script, "netdata", cnt)

x_monitor_monitoring(script, cnt) == MethodCells(script, "xmon", cnt)

\* experiment-sample.py has no interval loop and creates its directory in setup
sample_cells ==
    Flatten([m \in 1..Len(metrics("sample")) |->
      [i \in 1..Len(num_instances) |->
         [method |-> "netdata", metric |-> metrics("sample")[m],
          n |-> num_instances[i], interval |-> py_int(1), cnt |-> 0,
          mkdir |-> FALSE]]])

\* The cells main() runs, in order.  "cpu_ntd" is netdata_monitoring of
\* cpu-utilization.py run as the entry point: main() holds its call, commented out.
main(script) ==
    CASE script = "cpu"     -> x_monitor_monitoring("cpu", 0)
      [] script = "cpu_ntd" -> netdata_monitoring("cpu_ntd", 0)
      [] script = "thr"     ->
            Flatten([c \in 1..MaxCnts |->
                       no_monitoring(c - 1) \o netdata_monitoring("thr", c - 1)
                         \o x_monitor_monitoring("thr", c - 1)])
      [] script = "lat"     ->
            netdata_monitoring("lat", 0) \o x_monitor_monitoring("lat", 0)
      [] script = "sample"  -> sample_cells

Scripts == {"cpu", "cpu_ntd", "thr", "lat", "sample"}

IsCpu == cfg.script \in {"cpu", "cpu_ntd"}

\* The configuration globals each script reads; a flag a script does not have is FALSE.
Configs ==
    { c \in [script : Scripts, ismemcached : BOOLEAN, enable_mutilate : BOOLEAN,
             all_runs_in_0_4cores : BOOLEAN] :
        /\ (c.enable_mutilate => c.script \in {"cpu", "cpu_ntd"})
        /\ (c.all_runs_in_0_4cores => c.script \in {"thr", "lat"})
        /\ (c.script = "sample" => c.ismemcached) }

---------------------------------------------------------------------------
(* The lifecycle calls of one cell, function by function *)

make_output_dir(c) == IF c.mkdir THEN <<"make_output_dir">> ELSE <<>>

run_sampler == IF cfg.ismemcached THEN <<"run_stats">> ELSE <<"run_INFO">>

\* a teardown that leaves out the stop of the sampler
stop_sampler_skipped == <<>>

stop_sampler == IF cfg.ismemcached THEN <<"stop_stats">> ELSE <<"stop_INFO">>

\* load phase (blocking) and run phase of the load generator
run_mutilate == <<"load.sh", "run.sh">>

stop_loadgen ==
    IF cfg.script = "lat" /\ ~cfg.ismemcached
    THEN <<"stop_redisbench">> ELSE <<"stop_mutilate">>

(* ---- scripts/cpu-utilization.py ---- *)

\* run_netdata with the restart before the configuration files are copied
cpu_run_netdata_restart_first ==
    <<"restart_netdata", "cp_instance_conf", "cp_plugin_conf", "daemon-reload",
      "settle">>

\* run_netdata: cp of the instance-count and of the metric-class file,
\* systemctl daemon-reload, systemctl restart netdata, time.sleep(5)
cpu_run_netdata ==
    <<"cp_instance_conf", "cp_plugin_conf", "daemon-reload", "restart_netdata",
      "settle">>

cpu_run_netdata_server == <<"run_database">> \o cpu_run_netdata

cpu_run_netdata_client ==
    (IF cfg.enable_mutilate THEN run_mutilate ELSE <<>>)
      \o <<"run_netdata_client_monitor">>

cpu_run_x_monitor_server == <<"run_database", "load_xdp">>

cpu_run_x_monitor_client ==
    (IF cfg.enable_mutilate THEN run_mutilate ELSE <<>>)
      \o <<"run_x_monitor_client_monitor">>

cpu_stop_for_netdata ==
    <<"stop_monitoring_client_for_netdata">>
      \o (IF cfg.enable_mutilate THEN <<"stop_mutilate">> ELSE <<>>)
      \o stop_sampler
      \o <<"stop_database">>

cpu_stop_for_x_monitor ==
    <<"stop_bpf_tracepipe">>
      \o (IF cfg.enable_mutilate THEN <<"stop_mutilate">> ELSE <<>>)
      \o <<"stop_database", "detach_xdp">>

\* clear_trace_buffer without the truncation
clear_trace_buffer_no_truncate ==
    <<"echo 0 > tracing_on", "echo 1 > tracing_on">>

\* three subprocess.run of sudo sh -c, none with check=True
clear_trace_buffer ==
    <<"echo 0 > tracing_on", ": > trace", "echo 1 > tracing_on">>

\* calculate_x_monitor_cpu: clear the buffer, then open the file and the reader
cpu_calculate_x_monitor_cpu == clear_trace_buffer \o <<"calculate_x_monitor_cpu">>

cpu_netdata_monitoring(c) ==
    make_output_dir(c)
      \o cpu_run_netdata_server
      \o <<"sleep">>
      \o (IF c.metric = "user" THEN run_sampler ELSE <<>>)
      \o cpu_run_netdata_client
      \o (IF c.metric = "user" THEN <<"calculate_stats_cpu">> ELSE <<>>)
      \o <<"calculate_netdata_cpu">>
      \o cpu_stop_for_netdata
      \o <<"sleep">>

cpu_x_monitor_monitoring(c) ==
    make_output_dir(c)
      \o cpu_run_x_monitor_server
      \o cpu_calculate_x_monitor_cpu
      \o cpu_run_x_monitor_client
      \o cpu_stop_for_x_monitor
      \o <<"sleep">>

(* ---- scripts/experiment-throughput.py ---- *)

\* run_netdata without the restart of the agent
thr_run_netdata_no_restart ==
    <<"cp_instance_conf", "cp_plugin_conf", "daemon-reload">>

\* run_netdata: as in cpu-utilization.py, without the sleep
thr_run_netdata ==
    <<"cp_instance_conf", "cp_plugin_conf", "daemon-reload", "restart_netdata">>

thr_run_netdata_server == <<"run_database_for_netdata">> \o thr_run_netdata

\* run_mutilate_for_netdata starting the client before the load phase
thr_run_mutilate_for_netdata_client_first ==
    <<"run_netdata_client_monitor", "load.sh", "run.sh">>

thr_run_mutilate_for_netdata ==
    <<"load.sh", "run_netdata_client_monitor", "run.sh">>

thr_run_mutilate_for_x_monitor ==
    <<"load.sh", "run_x_monitor_client_monitor", "run.sh">>

thr_run_mutilate_for_no_monitoring == <<"load.sh", "run.sh">>

thr_run_netdata_client == thr_run_mutilate_for_netdata

thr_run_x_monitor_server == <<"run_database_for_x_monitor">>

\* run_x_monitor_client without its detach_xdp
thr_run_x_monitor_client_no_detach ==
    <<"load_xdp">> \o thr_run_mutilate_for_x_monitor

thr_run_x_monitor_client ==
    <<"load_xdp">> \o thr_run_mutilate_for_x_monitor \o <<"detach_xdp">>

\* stop_server_for_netdata stopping the database before the captures
thr_stop_server_for_netdata_db_first ==
    <<"stop_database", "stop_monitoring_client_for_netdata">>
      \o (IF cfg.all_runs_in_0_4cores THEN stop_sampler ELSE <<>>)

thr_stop_server_for_netdata ==
    <<"stop_monitoring_client_for_netdata">>
      \o (IF cfg.all_runs_in_0_4cores THEN stop_sampler ELSE <<>>)
      \o <<"stop_database">>

thr_stop_server_for_x_monitor ==
    <<"stop_monitoring_client_for_x_monitor", "stop_database">>

thr_netdata_monitoring(c) ==
    make_output_dir(c)
      \o thr_run_netdata_server
      \o (IF cfg.all_runs_in_0_4cores /\ c.metric = "user"
          THEN run_sampler ELSE <<>>)
      \o thr_run_netdata_client
      \o thr_stop_server_for_netdata
      \o <<"sleep">>

thr_x_monitor_monitoring(c) ==
    make_output_dir(c)
      \o thr_run_x_monitor_server
      \o thr_run_x_monitor_client
      \o thr_stop_server_for_x_monitor
      \o <<"sleep">>

\* the loop body of no_monitoring without its final time.sleep(5)
thr_no_monitoring_no_cool_down(c) ==
    make_output_dir(c)
      \o <<"run_database_for_no_monitor">>
      \o thr_run_mutilate_for_no_monitoring
      \o <<"stop_database">>

thr_no_monitoring(c) ==
    make_output_dir(c)
      \o <<"run_database_for_no_monitor">>
      \o thr_run_mutilate_for_no_monitoring
      \o <<"stop_database", "sleep">>

(* ---- scripts/experiment-latency.py ---- *)

\* run_netdata: as in experiment-throughput.py
lat_run_netdata ==
    <<"cp_instance_conf", "cp_plugin_conf", "daemon-reload", "restart_netdata">>

lat_run_netdata_server == <<"run_database">> \o lat_run_netdata

lat_run_netdata_client == run_mutilate \o <<"run_netdata_client_monitor">>

lat_run_x_monitor_server == <<"run_database">>

lat_run_x_monitor_client ==
    <<"load_xdp">> \o run_mutilate
      \o <<"run_x_monitor_client_monitor", "detach_xdp">>

lat_stop_server ==
    stop_loadgen
      \o (IF cfg.all_runs_in_0_4cores THEN stop_sampler ELSE <<>>)
      \o <<"stop_database">>

lat_netdata_monitoring(c) ==
    make_output_dir(c)
      \o lat_run_netdata_server
      \o (IF cfg.all_runs_in_0_4cores /\ c.metric = "user"
          THEN run_sampler ELSE <<>>)
      \o lat_run_netdata_client
      \o lat_stop_server
      \o <<"sleep">>

lat_x_monitor_monitoring(c) ==
    make_output_dir(c)
      \o lat_run_x_monitor_server
      \o lat_run_x_monitor_client
      \o lat_stop_server
      \o <<"sleep">>

(* ---- scripts/experiment-sample.py ---- *)

\* run_netdata: the two copies and the restart
sample_run_netdata ==
    <<"cp_instance_conf", "cp_plugin_conf", "restart_netdata">>

sample_run_server == <<"run_memcached">> \o sample_run_netdata

sample_run_client == run_mutilate \o <<"run_monitor">>

sample_stop_server == <<"stop_mutilate", "stop_memcached">>

sample_main(c) ==
    sample_run_server \o sample_run_client \o sample_stop_server \o <<"sleep">>

\* The body of the innermost loop that runs cell c
CellBody(c) ==
    CASE cfg.script = "cpu"     -> cpu_x_monitor_monitoring(c)
      [] cfg.script = "cpu_ntd" -> cpu_netdata_monitoring(c)
      [] cfg.script = "thr"     ->
            IF c.method = "none" THEN thr_no_monitoring(c)
            ELSE IF c.method = "netdata" THEN thr_netdata_monitoring(c)
            ELSE thr_x_monitor_monitoring(c)
      [] cfg.script = "lat"     ->
            IF c.method = "netdata" THEN lat_netdata_monitoring(c)
            ELSE lat_x_monitor_monitoring(c)
      [] cfg.script = "sample"  -> sample_main(c)

---------------------------------------------------------------------------
(* Paths.  A path is the sequence of the pieces an f-string puts together;  *)
(* numbers are rendered as Python renders them, digit by digit.             *)

Digit == <<"0", "1", "2", "3", "4", "5", "6", "7", "8", "9">>

\* str(n) of a non-negative int
RECURSIVE str(_)
str(n) ==
    IF n < 10 THEN <<Digit[n + 1]>>
    ELSE str(n \div 10) \o <<Digit[(n % 10) + 1]>>

\* the value of one digit character
DigitValue(d) == CHOOSE v \in 0..9 : Digit[v + 1] = d

\* int(ds) of a string of digits
RECURSIVE Value(_)
Value(ds) ==
    IF ds = <<>> THEN 0
    ELSE Value(SubSeq(ds, 1, Len(ds) - 1)) * 10 + DigitValue(ds[Len(ds)])

\* s.zfill(width)
RECURSIVE zfill(_, _)
zfill(s, width) == IF Len(s) >= width THEN s ELSE zfill(<<"0">> \o s, width)

\* the digits ds, each rendered
digits(ds) == [i \in DOMAIN ds |-> Digit[ds[i] + 1]]

\* number of zeros the digits ds begin with
RECURSIVE leading_zeros(_)
leading_zeros(ds) ==
    IF ds = <<>> \/ Head(ds) # 0 THEN 0 ELSE 1 + leading_zeros(Tail(ds))

\* f"{x}" of a float with two digits after the point ({x:.2f}), truncated
float_fixed2(x) ==
    str(x.whole) \o <<".">>
      \o digits([i \in 1..2 |-> IF i <= Len(x.frac) THEN x.frac[i] ELSE 0])

\* repr of a float: the shortest numeral that reads back as the same float,
\* in exponent notation when the value is below 0.0001
float_repr(x) ==
    LET z == leading_zeros(x.frac)
        m == SubSeq(x.frac, z + 1, Len(x.frac))
    IN  IF x.whole = 0 /\ z >= 4 /\ m # <<>>
        THEN digits(<<Head(m)>>)
               \o (IF Len(m) > 1 THEN <<".">> \o digits(Tail(m)) ELSE <<>>)
               \o <<"e", "-">> \o zfill(str(z + 1), 2)
        ELSE str(x.whole) \o <<".">>
               \o (IF x.frac = <<>> THEN <<"0">> ELSE digits(x.frac))

\* f"{x}" of a number
format(x) == IF x.type = "int" THEN str(x.whole) ELSE float_repr(x)

unit == IF cfg.ismemcached THEN "mcd" ELSE "redis"

\* data_dir built from the clock at the moment of use
data_dir_now == <<"data_root", "/">> \o str(now)

\* the data root and the configuration flags (fixed text), then {timestamp}
data_dir == <<"data_root", "/">> \o str(timestamp)

\* os.path.dirname and os.path.basename
LastSlash(path) ==
    CHOOSE i \in DOMAIN path :
        path[i] = "/" /\ \A j \in DOMAIN path : path[j] = "/" => j <= i

dirname(path) == SubSeq(path, 1, LastSlash(path) - 1)

basename(path) == SubSeq(path, LastSlash(path) + 1, Len(path))

(* ---- the directory make_output_dir creates ---- *)

\* make_output_dir of experiment-throughput.py without the zero padding
thr_output_dir_unpadded(cnt, num_instance) ==
    data_dir \o <<"/">> \o str(cnt) \o <<"/">> \o str(num_instance) \o <<unit>>

thr_output_dir(cnt, num_instance) ==
    data_dir \o <<"/">> \o str(cnt) \o <<"/">>
      \o zfill(str(num_instance), 3) \o <<unit>>

lat_output_dir(num_instance) ==
    data_dir \o <<"/">> \o zfill(str(num_instance), 3) \o <<unit>>

cpu_output_dir(num_instance) ==
    data_dir \o <<"/">> \o zfill(str(num_instance), 3) \o <<unit>>

(* ---- the files the calls write ---- *)

\* the monitoring client of experiment-throughput.py and cpu-utilization.py
\* is started in remote_monitoring_client with the output file test.csv
test_csv == <<"remote_monitoring_client", "/", "test", ".", "csv">>

\* the run phase's output of run_mutilate_for_netdata without {cnt}
thr_netdata_out_no_cnt(cnt, num_instance, metric, interval) ==
    data_dir \o <<"/">> \o zfill(str(num_instance), 3) \o <<unit, "/">>
      \o <<"netdata", "-", metric, "metrics", "-">> \o str(num_instance)
      \o <<unit, "-", "interval">> \o format(interval) \o <<".", "txt">>

\* the run phase's output of run_mutilate_for_netdata with a padded {N}
thr_netdata_out_padded(cnt, num_instance, metric, interval) ==
    data_dir \o <<"/">> \o str(cnt) \o <<"/">>
      \o zfill(str(num_instance), 3) \o <<unit, "/">>
      \o <<"netdata", "-", metric, "metrics", "-">>
      \o zfill(str(num_instance), 3)
      \o <<unit, "-", "interval">> \o format(interval) \o <<".", "txt">>

thr_netdata_out(cnt, num_instance, metric, interval) ==
    data_dir \o <<"/">> \o str(cnt) \o <<"/">>
      \o zfill(str(num_instance), 3) \o <<unit, "/">>
      \o <<"netdata", "-", metric, "metrics", "-">> \o str(num_instance)
      \o <<unit, "-", "interval">> \o format(interval) \o <<".", "txt">>

thr_xmonitor_out(cnt, num_instance, metric, interval) ==
    data_dir \o <<"/">> \o str(cnt) \o <<"/">>
      \o zfill(str(num_instance), 3) \o <<unit, "/">>
      \o <<"xmonitor", "-", metric, "metrics", "-">> \o str(num_instance)
      \o <<unit, "-", "interval">> \o format(interval) \o <<".", "txt">>

thr_no_monitoring_out(cnt, num_instance) ==
    data_dir \o <<"/">> \o str(cnt) \o <<"/">>
      \o zfill(str(num_instance), 3) \o <<unit, "/">>
      \o <<"no_monitoring", "-">> \o str(num_instance) \o <<unit, ".", "txt">>

lat_netdata_out(num_instance, metric, interval) ==
    data_dir \o <<"/">> \o zfill(str(num_instance), 3) \o <<unit, "/">>
      \o <<"netdata", "-", metric, "metrics", "-">> \o str(num_instance)
      \o <<unit, "-", "interval">> \o format(interval) \o <<".", "csv">>

lat_xmonitor_out(num_instance, metric, interval) ==
    data_dir \o <<"/">> \o zfill(str(num_instance), 3) \o <<unit, "/">>
      \o <<"xmonitor", "-", metric, "metrics", "-">> \o str(num_instance)
      \o <<unit, "-", "interval">> \o format(interval) \o <<".", "csv">>

\* out_path of calculate_stats_cpu
stats_out_path(num_instance, metric, interval) ==
    data_dir \o <<"/">> \o zfill(str(num_instance), 3) \o <<unit, "/">>
      \o <<IF cfg.ismemcached THEN "memcached_stats_loop"
           ELSE "redis_info_loop">>
      \o <<"-", metric, "metrics", "-">> \o str(num_instance)
      \o <<unit, "-", "interval">> \o format(interval) \o <<".", "csv">>

\* out_path of calculate_netdata_cpu
netdata_out_path(num_instance, metric, interval) ==
    data_dir \o <<"/">> \o zfill(str(num_instance), 3) \o <<unit, "/">>
      \o <<"netdata", "-", metric, "metrics", "-">> \o str(num_instance)
      \o <<unit, "-", "interval">> \o format(interval) \o <<".", "csv">>

\* out_path of calculate_x_monitor_cpu
xmonitor_out_path(num_instance, metric, interval) ==
    data_dir \o <<"/">> \o zfill(str(num_instance), 3) \o <<unit, "/">>
      \o <<"xmonitor", "-", metric, "metrics", "-">> \o str(num_instance)
      \o <<unit, "-", "interval">> \o format(interval) \o <<".", "csv">>

\* the output file run_monitor of experiment-sample.py hands to the client
sample_out(num_memcached, metric) ==
    data_dir \o <<"/", "netdata", "-", metric, "metrics", "-">>
      \o str(num_memcached) \o <<"mcd", ".", "csv">>

\* the files the call op of cell c opens for writing
Writes(op, c) ==
    CASE cfg.script = "thr" /\ op = "run.sh" ->
            {IF c.method = "none" THEN thr_no_monitoring_out(c.cnt, c.n)
             ELSE IF c.method = "netdata"
             THEN thr_netdata_out(c.cnt, c.n, c.metric, c.interval)
             ELSE thr_xmonitor_out(c.cnt, c.n, c.metric, c.interval)}
      [] cfg.script \in {"thr", "cpu", "cpu_ntd"}
           /\ op \in {"run_netdata_client_monitor",
                      "run_x_monitor_client_monitor"} -> {test_csv}
      [] cfg.script = "lat" /\ op = "run_netdata_client_monitor" ->
            {lat_netdata_out(c.n, c.metric, c.interval)}
      [] cfg.script = "lat" /\ op = "run_x_monitor_client_monitor" ->
            {lat_xmonitor_out(c.n, c.metric, c.interval)}
      [] op = "calculate_stats_cpu" ->
            {stats_out_path(c.n, c.metric, c.interval)}
      [] op = "calculate_netdata_cpu" ->
            {netdata_out_path(c.n, c.metric, c.interval)}
      [] op = "calculate_x_monitor_cpu" ->
            {xmonitor_out_path(c.n, c.metric, c.interval)}
      [] op = "run_monitor" -> {sample_out(c.n, c.metric)}
      [] OTHER -> {}

\* the directories the call op of cell c creates
Mkdirs(op, c) ==
    CASE op = "make_output_dir" /\ cfg.script = "thr" ->
            {thr_output_dir(c.cnt, c.n)}
      [] op = "make_output_dir" /\ cfg.script = "lat" -> {lat_output_dir(c.n)}
      [] op = "make_output_dir" /\ IsCpu -> {cpu_output_dir(c.n)}
      [] op = "calculate_x_monitor_cpu" ->
            {dirname(xmonitor_out_path(c.n, c.metric, c.interval))}
      [] OTHER -> {}

\* open(path, "w") and the shell's > : the file is created or truncated,
\* whether or not it exists
Opened(paths, c) ==
    [p \in (DOMAIN fs) \cup paths |->
       IF p \in paths
       THEN [writes |-> (IF p \in DOMAIN fs THEN fs[p].writes ELSE 0) + 1,
             cells  |-> (IF p \in DOMAIN fs THEN fs[p].cells ELSE {}) \cup {c}]
       ELSE fs[p]]

\* a line of the source file is a sequence of pieces of text; the text
\* "#define NUM_APP" is one piece, so that line.startswith("#define NUM_APP")
\* is a test of the first piece
startswith_NUM_APP(line) == Len(line) > 0 /\ line[1] = "#define NUM_APP"

\* f"#define NUM_APP {num_instance}\n"
NUM_APP_line(num_instance) ==
    <<"#define NUM_APP", " ">> \o str(num_instance) \o <<"\n">>

\* the loop over readlines(): one line written for each line read
patch(lines, num_instance) ==
    [i \in 1..Len(lines) |->
        IF startswith_NUM_APP(lines[i]) THEN NUM_APP_line(num_instance)
        ELSE lines[i]]

---------------------------------------------------------------------------
(* The state after the module globals are set and before main() *)

Init ==
    /\ cfg \in Configs
    /\ cells = main(cfg.script)
    /\ cur = NoCell
    /\ todo = <<>>
    /\ calls = <<>>
    /\ status = "running"
    /\ raised = "none"
    /\ completed = 0
    /\ db = 0
    /\ netdata = NoAgent
    /\ xdp = "none"
    /\ client = "none"
    /\ sampler = FALSE
    /\ loadgen = FALSE
    /\ TRACE_READERS = <<>>
    /\ handled = <<>>
    /\ stopping = FALSE
    /\ tracing_on = TRUE
    /\ trace \in {{}, {"stale"}}
    /\ fs = <<>>
    /\ dirs = {}
    /\ timestamp \in 0..MaxStart
    /\ now = timestamp
    /\ warned = 0
    /\ result = NoResult
    /\ f_lines = <<>>
    /\ c_file = <<NUM_APP_line(5), <<"int counters[NUM_APP];", "\\n">>>>
    /\ conf = NoAgent
    /\ stdin = <<>>
    /\ failed = <<>>
    /\ plot = NoPlot

\* the control thread is about to make one of the calls in ops
At(ops) == status = "running" /\ todo # <<>> /\ Head(todo) \in ops

\* the call returns: the control thread goes on to the next call of the cell
Return ==
    /\ calls' = Append(calls, Head(todo))
    /\ todo' = Tail(todo)
    /\ fs' = Opened(Writes(Head(todo), cur), cur)
    /\ dirs' = dirs \cup Mkdirs(Head(todo), cur)
    /\ UNCHANGED <<cfg, cells, cur, status, raised, completed, timestamp>>

\* the call raises (subprocess.run(..., check=True) on a non-zero exit): no
\* function of the scripts catches it, so the interpreter exits
Raise ==
    /\ calls' = Append(calls, Head(todo))
    /\ todo' = Tail(todo)
    /\ status' = "aborted"
    /\ raised' = Head(todo)
    /\ fs' = Opened(Writes(Head(todo), cur), cur)
    /\ dirs' = dirs \cup Mkdirs(Head(todo), cur)
    /\ UNCHANGED <<cfg, cells, cur, completed, timestamp>>

\* the innermost loop starts its next iteration
NextCell ==
    /\ status = "running" /\ todo = <<>> /\ cells # <<>>
    /\ cur' = Head(cells)
    /\ cells' = Tail(cells)
    /\ todo' = CellBody(Head(cells))
    /\ calls' = <<>>
    /\ completed' = IF cur = NoCell THEN completed ELSE completed + 1
    /\ trace' = IF trace = {} THEN {} ELSE {"stale"}
    /\ UNCHANGED <<cfg, status, raised, db, netdata, xdp, client, sampler,
                   loadgen, TRACE_READERS, handled, stopping, tracing_on, fs,
                   dirs, timestamp, now, plot, failed, warned, result, f_lines, c_file, conf, stdin>>

\* the loops are exhausted and main() returns
Finish ==
    /\ status = "running" /\ todo = <<>> /\ cells = <<>>
    /\ status' = "done"
    /\ completed' = IF cur = NoCell THEN completed ELSE completed + 1
    /\ UNCHANGED <<cfg, cells, cur, todo, calls, raised, db, netdata, xdp,
                   client, sampler, loadgen, TRACE_READERS, handled, stopping,
                   tracing_on, trace, fs, dirs, timestamp, now, plot, failed, warned, result, f_lines, c_file, conf, stdin>>

MakeOutputDir ==
    /\ At({"make_output_dir"})
    /\ Return
    /\ UNCHANGED <<db, netdata, xdp, client, sampler, loadgen, TRACE_READERS,
                   handled>>
    /\ UNCHANGED <<stopping, tracing_on, trace, now, plot, failed, warned, result, f_lines, c_file, conf, stdin>>

\* subprocess.Popen of the start script: non-blocking
RunDatabase ==
    /\ At({"run_database", "run_database_for_netdata",
           "run_database_for_x_monitor", "run_database_for_no_monitor",
           "run_memcached"})
    /\ db' = cur.n
    /\ Return
    /\ UNCHANGED <<netdata, xdp, client, sampler, loadgen, TRACE_READERS,
                   handled>>
    /\ UNCHANGED <<stopping, tracing_on, trace, now, plot, failed, warned, result, f_lines, c_file, conf, stdin>>

(* ---- run_netdata, one subprocess.run after the other, none with check ---- *)

\* sudo cp {memcached_conf} /etc/netdata/go.d/memcached.conf (or redis.conf)
CopyInstanceConf ==
    /\ At({"cp_instance_conf"})
    /\ conf' = [conf EXCEPT !.n = cur.n]
    /\ Return
    /\ UNCHANGED <<db, netdata, xdp, client, sampler, loadgen, TRACE_READERS,
                   handled>>
    /\ UNCHANGED <<stopping, tracing_on, trace, now, plot, failed, warned, result, f_lines, c_file, stdin>>

\* sudo cp {user_plugin_conf or kernel_plugin_conf} /etc/netdata/netdata.conf
CopyPluginConf ==
    /\ At({"cp_plugin_conf"})
    /\ conf' = [conf EXCEPT !.metric = cur.metric]
    /\ Return
    /\ UNCHANGED <<db, netdata, xdp, client, sampler, loadgen, TRACE_READERS,
                   handled>>
    /\ UNCHANGED <<stopping, tracing_on, trace, now, plot, failed, warned, result, f_lines, c_file, stdin>>

\* sudo systemctl daemon-reload: systemd reads its unit files again
DaemonReload ==
    /\ At({"daemon-reload"})
    /\ Return
    /\ UNCHANGED <<db, netdata, xdp, client, sampler, loadgen, TRACE_READERS,
                   handled>>
    /\ UNCHANGED <<stopping, tracing_on, trace, now, plot, failed, warned, result, f_lines, c_file, stdin, conf>>

\* sudo systemctl restart netdata: the agent starts with the installed files
RestartNetdata ==
    /\ At({"restart_netdata"})
    /\ netdata' = conf
    /\ Return
    /\ UNCHANGED <<db, xdp, client, sampler, loadgen, TRACE_READERS, handled>>
    /\ UNCHANGED <<stopping, tracing_on, trace, now, plot, failed, warned, result, f_lines, c_file, stdin, conf>>

\* time.sleep(5) at the end of run_netdata of cpu-utilization.py
Settle ==
    /\ At({"settle"})
    /\ now' = now + 1
    /\ Return
    /\ UNCHANGED <<db, netdata, xdp, client, sampler, loadgen, TRACE_READERS,
                   handled>>
    /\ UNCHANGED <<stopping, tracing_on, trace, plot, failed, warned, result, f_lines, c_file, stdin, conf>>

RunSampler ==
    /\ At({"run_stats", "run_INFO"})
    /\ sampler' = TRUE
    /\ Return
    /\ UNCHANGED <<db, netdata, xdp, client, loadgen, TRACE_READERS, handled>>
    /\ UNCHANGED <<stopping, tracing_on, trace, now, plot, failed, warned, result, f_lines, c_file, conf, stdin>>

\* patch NUM_APP, run the attach script with check=True, settle; the file is
\* rewritten before the script runs, so a failing script leaves it patched
LoadXdp ==
    /\ At({"load_xdp"})
    /\ c_file' = IF cur.metric = "user" THEN patch(c_file, cur.n) ELSE c_file
    /\ \/ xdp' = cur.metric /\ Return
       \/ xdp' = xdp /\ Raise
    /\ UNCHANGED <<db, netdata, client, sampler, loadgen, TRACE_READERS,
                   handled>>
    /\ UNCHANGED <<stopping, tracing_on, trace, now, plot, failed, warned, result, f_lines, conf, stdin>>

\* off.sh with check=True
DetachXdp ==
    /\ At({"detach_xdp"})
    /\ \/ xdp' = "none" /\ Return
       \/ xdp' = xdp /\ Raise
    /\ UNCHANGED <<db, netdata, client, sampler, loadgen, TRACE_READERS,
                   handled>>
    /\ UNCHANGED <<stopping, tracing_on, trace, now, plot, failed, warned, result, f_lines, c_file, conf, stdin>>

\* load/warm-up phase of the load generator: subprocess.run, blocking
LoadPhase ==
    /\ At({"load.sh"})
    /\ Return
    /\ UNCHANGED <<db, netdata, xdp, client, sampler, loadgen, TRACE_READERS,
                   handled>>
    /\ UNCHANGED <<stopping, tracing_on, trace, now, plot, failed, warned, result, f_lines, c_file, conf, stdin>>

\* the run phase started with Popen in every script
RunPhase_detached ==
    /\ At({"run.sh"})
    /\ loadgen' = TRUE
    /\ Return
    /\ UNCHANGED <<db, netdata, xdp, client, sampler, TRACE_READERS, handled>>
    /\ UNCHANGED <<stopping, tracing_on, trace, now, plot, failed, warned, result, f_lines, c_file, conf, stdin>>

\* run phase: blocking in experiment-throughput.py, Popen in the other scripts
RunPhase ==
    /\ At({"run.sh"})
    /\ loadgen' = (cfg.script # "thr")
    /\ Return
    /\ UNCHANGED <<db, netdata, xdp, client, sampler, TRACE_READERS, handled>>
    /\ UNCHANGED <<stopping, tracing_on, trace, now, plot, failed, warned, result, f_lines, c_file, conf, stdin>>

\* stdin_input of the netdata client with the flag 1 for either metric class
stdin_input_flag_1(op, metric, interval) ==
    IF op = "run_netdata_client_monitor"
    THEN format(interval) \o <<"\n", "1", "\n">>
    ELSE IF op = "run_monitor" THEN <<"1", "\n", "1", "\n">>
    ELSE format(interval) \o <<"\n">>

\* stdin_input: f"{interval}\n1\n" or f"{interval}\n0\n" for the netdata client
\* ("1\n1\n" or "1\n0\n" in experiment-sample.py), f"{interval}\n" for the
\* x-monitor client
stdin_input(op, metric, interval) ==
    IF op = "run_netdata_client_monitor"
    THEN format(interval) \o <<"\n">>
           \o (IF metric = "user" THEN <<"1", "\n">> ELSE <<"0", "\n">>)
    ELSE IF op = "run_monitor"
    THEN IF metric = "user" THEN <<"1", "\n", "1", "\n">>
         ELSE <<"1", "\n", "0", "\n">>
    ELSE format(interval) \o <<"\n">>

ClientDetached(op) ==
    \/ op = "run_netdata_client_monitor" /\ cfg.script \in {"cpu", "cpu_ntd", "thr"}
    \/ op = "run_x_monitor_client_monitor" /\ cfg.script = "thr"

ClientChecked(op) == op = "run_x_monitor_client_monitor" /\ IsCpu

\* the monitoring client: Popen (left running) or subprocess.run (runs to its end)
RunMonitoringClient ==
    /\ At({"run_netdata_client_monitor", "run_x_monitor_client_monitor",
           "run_monitor"})
    /\ \/ /\ client' = IF ~ClientDetached(Head(todo)) THEN client
                       ELSE IF Head(todo) = "run_netdata_client_monitor"
                            THEN "netdata" ELSE "xmon"
          /\ Return
       \/ /\ ClientChecked(Head(todo))
          /\ client' = client
          /\ Raise
    /\ stdin' = stdin_input(Head(todo), cur.metric, cur.interval)
    /\ UNCHANGED <<db, netdata, xdp, sampler, loadgen, TRACE_READERS, handled>>
    /\ UNCHANGED <<stopping, tracing_on, trace, now, plot, failed, warned, result, f_lines, c_file, conf>>

\* pidstat over 40 s into the artifact, with check=True
CalculatePidstat ==
    /\ At({"calculate_stats_cpu", "calculate_netdata_cpu"})
    /\ Return \/ Raise
    /\ UNCHANGED <<db, netdata, xdp, client, sampler, loadgen, TRACE_READERS,
                   handled>>
    /\ UNCHANGED <<stopping, tracing_on, trace, now, plot, failed, warned, result, f_lines, c_file, conf, stdin>>

\* calculate_x_monitor_cpu returning early when a reader is registered
calculate_x_monitor_cpu_guarded(num_instance, metric, interval) ==
    TRACE_READERS' =
        IF TRACE_READERS # <<>> THEN TRACE_READERS
        ELSE Append(TRACE_READERS,
                    [proc |-> "running", f |-> "open", data |-> {},
                     path |-> xmonitor_out_path(num_instance, metric, interval)])

\* after clear_trace_buffer: open the output file, start the reader (sudo cat
\* trace_pipe with the file as stdout), register it
calculate_x_monitor_cpu(num_instance, metric, interval) ==
    TRACE_READERS' =
        Append(TRACE_READERS,
               [proc |-> "running", f |-> "open", data |-> {},
                path |-> xmonitor_out_path(num_instance, metric, interval)])

\* What stop_bpf_tracepipe leaves of a reader: proc.wait(timeout=2) returns
\* ("exited") or times out and proc.kill() sends SIGKILL without waiting again
\* ("kill_sent"); flush and fsync succeed or raise (swallowed); close is called.
\* A reader that does not react to the pkill ("hung") always runs into the
\* timeout.  StoppedAll is every outcome of the loop over the registered readers.
StoppedAll(readers) ==
    { [i \in 1..Len(readers) |->
         [proc |-> ps[i], f |-> "closed", synced |-> ss[i],
          data |-> readers[i].data, path |-> readers[i].path]] :
        ps \in { q \in [1..Len(readers) -> {"kill_sent", "exited"}] :
                   \A i \in 1..Len(readers) :
                       readers[i].proc = "hung" => q[i] = "kill_sent" },
        ss \in [1..Len(readers) -> {TRUE, FALSE}] }

\* stop_bpf_tracepipe with proc.wait() in place of proc.wait(timeout=2)
stop_bpf_tracepipe_unbounded_wait ==
    /\ \A i \in 1..Len(TRACE_READERS) : TRACE_READERS[i].proc # "hung"
    /\ handled' \in StoppedAll(TRACE_READERS)
    /\ TRACE_READERS' = <<>>

\* stop_bpf_tracepipe without the try blocks: the loop ends at the first
\* reader whose wait, flush or fsync raises, before the registry is cleared
stop_bpf_tracepipe_no_try ==
    \E k \in 0..Len(TRACE_READERS) :
        /\ handled' \in StoppedAll(SubSeq(TRACE_READERS, 1, k))
        /\ TRACE_READERS' = IF k = Len(TRACE_READERS) THEN <<>> ELSE TRACE_READERS

\* stop_bpf_tracepipe without its TRACE_READERS.clear()
stop_bpf_tracepipe_keeps_registry ==
    /\ handled' \in StoppedAll(TRACE_READERS)
    /\ TRACE_READERS' = TRACE_READERS

stop_bpf_tracepipe ==
    /\ handled' \in StoppedAll(TRACE_READERS)
    /\ TRACE_READERS' = <<>>

\* echo 0 > tracing_on: recording stops
TracingOff ==
    /\ At({"echo 0 > tracing_on"})
    /\ tracing_on' = FALSE
    /\ Return
    /\ UNCHANGED <<db, netdata, xdp, client, sampler, loadgen, TRACE_READERS,
                   handled, stopping, trace, now, plot, failed, warned, result, f_lines, c_file, conf, stdin>>

\* : > trace: the ring buffer is emptied
TruncateTrace ==
    /\ At({": > trace"})
    /\ trace' = {}
    /\ Return
    /\ UNCHANGED <<db, netdata, xdp, client, sampler, loadgen, TRACE_READERS,
                   handled, stopping, tracing_on, now, plot, failed, warned, result, f_lines, c_file, conf, stdin>>

\* echo 1 > tracing_on: recording resumes
TracingOn ==
    /\ At({"echo 1 > tracing_on"})
    /\ tracing_on' = TRUE
    /\ Return
    /\ UNCHANGED <<db, netdata, xdp, client, sampler, loadgen, TRACE_READERS,
                   handled, stopping, trace, now, plot, failed, warned, result, f_lines, c_file, conf, stdin>>

CalculateXMonitorCpu ==
    /\ At({"calculate_x_monitor_cpu"})
    /\ calculate_x_monitor_cpu(cur.n, cur.metric, cur.interval)
    /\ Return
    /\ UNCHANGED <<db, netdata, xdp, client, sampler, loadgen, handled>>
    /\ UNCHANGED <<stopping, tracing_on, trace, now, plot, failed, warned, result, f_lines, c_file, conf, stdin>>

StopBpfTracepipe ==
    /\ At({"stop_bpf_tracepipe"})
    /\ stop_bpf_tracepipe
    /\ Return
    /\ UNCHANGED <<db, netdata, xdp, client, sampler, loadgen>>
    /\ UNCHANGED <<stopping, tracing_on, trace, now, plot, failed, warned, result, f_lines, c_file, conf, stdin>>

\* ssh pkill -f of the client's name
StopMonitoringClient ==
    /\ At({"stop_monitoring_client_for_netdata",
           "stop_monitoring_client_for_x_monitor"})
    /\ client' = "none"
    /\ Return
    /\ UNCHANGED <<db, netdata, xdp, sampler, loadgen, TRACE_READERS, handled>>
    /\ UNCHANGED <<stopping, tracing_on, trace, now, plot, failed, warned, result, f_lines, c_file, conf, stdin>>

StopLoadGenerator ==
    /\ At({"stop_mutilate", "stop_redisbench"})
    /\ loadgen' = FALSE
    /\ Return
    /\ UNCHANGED <<db, netdata, xdp, client, sampler, TRACE_READERS, handled>>
    /\ UNCHANGED <<stopping, tracing_on, trace, now, plot, failed, warned, result, f_lines, c_file, conf, stdin>>

\* stop_stats / stop_INFO run with check=True: pkill exits 1 when it finds no
\* process, and the call raises
StopSampler_checked ==
    /\ At({"stop_stats", "stop_INFO"})
    /\ sampler' = FALSE
    /\ IF sampler THEN Return ELSE Raise
    /\ UNCHANGED <<db, netdata, xdp, client, loadgen, TRACE_READERS, handled>>
    /\ UNCHANGED <<stopping, tracing_on, trace, now, plot, failed, warned, result, f_lines, c_file, conf, stdin>>

\* pkill -f of the sampler's name, without check
StopSampler ==
    /\ At({"stop_stats", "stop_INFO"})
    /\ sampler' = FALSE
    /\ Return
    /\ UNCHANGED <<db, netdata, xdp, client, loadgen, TRACE_READERS, handled>>
    /\ UNCHANGED <<stopping, tracing_on, trace, now, plot, failed, warned, result, f_lines, c_file, conf, stdin>>

\* pkill by name: the pattern also matches the sampler (memcached_stats_loop,
\* redis_info_loop); the monitoring agent is not touched
StopDatabase ==
    /\ At({"stop_database", "stop_memcached"})
    /\ db' = 0
    /\ sampler' = FALSE
    /\ stopping' = (stopping \/ db > 0)
    /\ Return
    /\ UNCHANGED <<netdata, xdp, client, loadgen, TRACE_READERS, handled>>
    /\ UNCHANGED <<tracing_on, trace, now, plot, failed, warned, result, f_lines, c_file, conf, stdin>>

\* time.sleep(5) between the calls of the loop body
CoolDown ==
    /\ At({"sleep"})
    /\ now' = now + 1
    /\ Return
    /\ UNCHANGED <<db, netdata, xdp, client, sampler, loadgen, TRACE_READERS,
                   handled>>
    /\ UNCHANGED <<stopping, tracing_on, trace, plot, failed, warned, result, f_lines, c_file, conf, stdin>>

(* ---- what the processes the driver started do on their own ---- *)

\* the attached program writes an entry to the trace buffer
XdpEmits ==
    /\ xdp # "none" /\ tracing_on /\ "fresh" \notin trace
    /\ trace' = trace \cup {"fresh"}
    /\ UNCHANGED <<cfg, cells, cur, todo, calls, status, raised, completed, db,
                   netdata, xdp, client, sampler, loadgen, TRACE_READERS,
                   handled, stopping, tracing_on, fs, dirs, timestamp, now, plot, failed, warned, result, f_lines, c_file, conf, stdin>>

\* a reader (cat trace_pipe) moves the buffered entries to its output file
ReaderDrains ==
    /\ trace # {}
    /\ \E i \in 1..Len(TRACE_READERS) :
          /\ TRACE_READERS[i].proc = "running"
          /\ TRACE_READERS' =
               [TRACE_READERS EXCEPT ![i].data = @ \cup trace]
    /\ trace' = {}
    /\ UNCHANGED <<cfg, cells, cur, todo, calls, status, raised, completed, db,
                   netdata, xdp, client, sampler, loadgen, handled, stopping,
                   tracing_on, fs, dirs, timestamp, now, plot, failed, warned, result, f_lines, c_file, conf, stdin>>

\* a reader gets into a state in which it does not exit on the pkill
ReaderHangs ==
    /\ \E i \in 1..Len(TRACE_READERS) :
          /\ TRACE_READERS[i].proc = "running"
          /\ TRACE_READERS' = [TRACE_READERS EXCEPT ![i].proc = "hung"]
    /\ UNCHANGED <<cfg, cells, cur, todo, calls, status, raised, completed, db,
                   netdata, xdp, client, sampler, loadgen, handled, stopping,
                   tracing_on, trace, fs, dirs, timestamp, now, plot, failed, warned, result, f_lines, c_file, conf, stdin>>

\* the servers that pkill signalled exit
ServerExit ==
    /\ stopping
    /\ stopping' = FALSE
    /\ UNCHANGED <<cfg, cells, cur, todo, calls, status, raised, completed, db,
                   netdata, xdp, client, sampler, loadgen, TRACE_READERS,
                   handled, tracing_on, trace, fs, dirs, timestamp, now, plot, failed, warned, result, f_lines, c_file, conf, stdin>>

\* the steps of the control thread
Driver ==
    \/ NextCell
    \/ Finish
    \/ MakeOutputDir
    \/ RunDatabase
    \/ CopyInstanceConf
    \/ CopyPluginConf
    \/ DaemonReload
    \/ RestartNetdata
    \/ Settle
    \/ RunSampler
    \/ LoadXdp
    \/ DetachXdp
    \/ LoadPhase
    \/ RunPhase
    \/ RunMonitoringClient
    \/ CalculatePidstat
    \/ TracingOff
    \/ TruncateTrace
    \/ TracingOn
    \/ CalculateXMonitorCpu
    \/ StopBpfTracepipe
    \/ StopMonitoringClient
    \/ StopLoadGenerator
    \/ StopSampler
    \/ StopDatabase
    \/ CoolDown

Next == Driver \/ XdpEmits \/ ReaderDrains \/ ReaderHangs \/ ServerExit

Spec == Init /\ [][Next]_vars

\* The interpreter runs the next statement of the control thread whenever
\* there is one: no call of the scripts waits on anything without a bound.
FairSpec == Spec /\ WF_vars(Driver)

(* ---- the same runs with a network that may fail ---- *)

\* the ssh of a load phase, a run phase or a monitoring client exits with 255
\* because the connection to the remote host fails: the remote command does
\* not run; subprocess.run without check returns, Popen does not look at its
\* child, and the control thread goes on with the next call
RemoteCommandFails ==
    /\ At({"load.sh", "run.sh", "run_netdata_client_monitor",
           "run_x_monitor_client_monitor", "run_monitor"})
    /\ ~ClientChecked(Head(todo))
    /\ Len(failed) < MaxFailures
    /\ failed' = Append(failed, [cell |-> cur, op |-> Head(todo)])
    /\ calls' = Append(calls, Head(todo))
    /\ todo' = Tail(todo)
    /\ UNCHANGED <<cfg, cells, cur, status, raised, completed, db, netdata,
                   xdp, client, sampler, loadgen, TRACE_READERS, handled,
                   stopping, tracing_on, trace, fs, dirs, timestamp, now, plot,
                   c_file, stdin, conf, f_lines, result, warned>>

NextFaults == Next \/ RemoteCommandFails

SpecFaults == Init /\ [][NextFaults]_vars

(* ---- the progress notifications ---- *)

\* notifications that fail in one run
MaxWarnings == 1

\* log_to_slack without its try: the exception of subprocess.run leaves main
log_to_slack_no_try ==
    /\ status' = "aborted"
    /\ raised' = "log_to_slack"

\* log_to_slack when log.sh is missing or exits non-zero: the exception of
\* subprocess.run(..., check=True) is caught and a warning goes to stderr
log_to_slack ==
    /\ status' = status
    /\ raised' = raised

\* a notification fails: the loops call log_to_slack at the start of every
\* iteration, before the calls of the cell, and main calls it after the loops;
\* experiment-sample.py sends no notifications
LogToSlackFails ==
    /\ cfg.script # "sample"
    /\ status = "running" /\ todo = <<>>
    /\ warned < MaxWarnings
    /\ warned' = warned + 1
    /\ log_to_slack
    /\ UNCHANGED <<cfg, cells, cur, todo, calls, completed, db, netdata,
                   xdp, client, sampler, loadgen, TRACE_READERS, handled,
                   stopping, tracing_on, trace, fs, dirs, timestamp, now, plot,
                   failed, c_file, stdin, conf, f_lines, result>>

NextNotify == Next \/ LogToSlackFails

SpecNotify == Init /\ [][NextNotify]_vars

---------------------------------------------------------------------------
(* The trace functions of cpu-utilization.py called in any order, as a test *)
(* of the two functions would call them                                     *)

InitOps == Init /\ cfg.script = "cpu"

CallCalculate ==
    /\ Len(calls) < MaxCalls
    /\ \E i \in 1..Len(num_instances), k \in 1..Len(intervals),
          metric \in {"user", "kernel"} :
          /\ calculate_x_monitor_cpu(num_instances[i], metric, intervals[k])
          /\ fs' = Opened({xmonitor_out_path(num_instances[i], metric,
                                             intervals[k])}, cur)
          /\ dirs' = dirs \cup {dirname(xmonitor_out_path(num_instances[i],
                                                          metric, intervals[k]))}
    /\ tracing_on' = TRUE
    /\ trace' = {}
    /\ calls' = Append(calls, "calculate_x_monitor_cpu")
    /\ UNCHANGED <<cfg, cells, cur, todo, status, raised, completed, db,
                   netdata, xdp, client, sampler, loadgen, handled, stopping,
                   timestamp, now, plot, failed, warned, result, f_lines, c_file, conf, stdin>>

CallStop ==
    /\ Len(calls) < MaxCalls
    /\ stop_bpf_tracepipe
    /\ calls' = Append(calls, "stop_bpf_tracepipe")
    /\ UNCHANGED <<cfg, cells, cur, todo, status, raised, completed, db,
                   netdata, xdp, client, sampler, loadgen, stopping,
                   tracing_on, trace, fs, dirs, timestamp, now, plot, failed, warned, result, f_lines, c_file, conf, stdin>>

NextOps == CallCalculate \/ CallStop

SpecOps == InitOps /\ [][NextOps]_vars

---------------------------------------------------------------------------
(* The plotting scripts: how graph/throughput.py and graph/cpu_utilization.py *)
(* find the file of an interval in one {NNN}mcd directory                     *)

\* files of a directory listing
MaxFiles == 2

\* every interval an experiment script has in an intervals list, commented
\* out or not
configured_intervals ==
    {py_int(1), py_float(0, <<5>>), py_float(0, <<1>>), py_float(0, <<0, 1>>),
     py_float(0, <<0, 0, 1>>), py_float(0, <<0, 0, 0, 5>>),
     py_float(0, <<0, 0, 0, 2>>), py_float(0, <<0, 0, 0, 1>>)}

\* TOOL_INTERVALS of throughput.py: [1.0, 0.5, 0.001] for either tool
TOOL_INTERVALS ==
    {py_float(1, <<>>), py_float(0, <<5>>), py_float(0, <<0, 0, 1>>)}

\* intervals = ["1", "0.5", "0.001"] of cpu_utilization.py
cpu_intervals == {<<"1">>, <<"0", ".", "5">>, <<"0", ".", "0", "0", "1">>}

\* the part of s before the first point, or all of s
whole_part(s) ==
    IF \E i \in DOMAIN s : s[i] = "."
    THEN SubSeq(s, 1, (CHOOSE i \in DOMAIN s :
                          s[i] = "." /\ \A j \in 1..(i - 1) : s[j] # ".") - 1)
    ELSE s

\* the digits ds without the zeros they end with
RECURSIVE strip_zeros(_)
strip_zeros(ds) ==
    IF ds = <<>> \/ ds[Len(ds)] # 0 THEN ds
    ELSE strip_zeros(SubSeq(ds, 1, Len(ds) - 1))

\* float(s) of a numeral s: digits, then possibly a point and digits
float(s) ==
    LET w == whole_part(s)
        f == SubSeq(s, Len(w) + 2, Len(s))
    IN  py_float(Value(w), strip_zeros([i \in DOMAIN f |-> DigitValue(f[i])]))

\* abs(a - b) < 1e-9, for numbers of fewer than nine digits after the point
close(a, b) == a.whole = b.whole /\ a.frac = b.frac

\* re.search(r"interval([0-9.]+)\.txt$", f): the group, or <<>> for no match
interval_txt(f) ==
    IF /\ \E i \in DOMAIN f : f[i] = "interval"
       /\ Len(f) >= 2 /\ SubSeq(f, Len(f) - 1, Len(f)) = <<".", "txt">>
    THEN LET i == CHOOSE i \in DOMAIN f : f[i] = "interval"
             g == SubSeq(f, i + 1, Len(f) - 2)
         IN  IF g # <<>> /\ \A k \in DOMAIN g :
                               g[k] = "." \/ \E v \in 0..9 : Digit[v + 1] = g[k]
             THEN g ELSE <<>>
    ELSE <<>>

\* glob of {tool}-{metric}metrics-{n}mcd-interval*.txt
glob_txt(files, tool, metric, n) ==
    LET head == <<tool, "-", metric, "metrics", "-">> \o str(n)
                  \o <<"mcd", "-", "interval">>
    IN  {f \in files :
            /\ Len(f) >= Len(head) + 2
            /\ SubSeq(f, 1, Len(head)) = head
            /\ SubSeq(f, Len(f) - 1, Len(f)) = <<".", "txt">>}

\* _find_interval_files_txt: the (sec, path) pairs found, in the order of
\* glob (files: the directory, in that order)
_find_interval_files_txt(files, tool, metric, n) ==
    LET Globbed(f) == f \in glob_txt({files[i] : i \in DOMAIN files},
                                     tool, metric, n)
        Matched(f) == Globbed(f) /\ interval_txt(f) # <<>>
        found == SelectSeq(files, Matched)
    IN  [i \in DOMAIN found |->
            [sec |-> float(interval_txt(found[i])), path |-> found[i]]]

\* _select_file_for_interval: the first candidate that is close, {} for None.
\* found.sort is stable and candidates that are close to the same target have
\* the same sec, so the first of them after the sort is the first before it.
_select_file_for_interval(files, tool, metric, n, target_interval) ==
    LET candidates == _find_interval_files_txt(files, tool, metric, n)
        IsClose(c) == close(c.sec, target_interval)
        hits == SelectSeq(candidates, IsClose)
    IN  IF hits = <<>> THEN {} ELSE {hits[1].path}

\* FNAME_RE and NETDATA_FNAME_RE matched against a file name: the groups
\* (metric, mcd, interval), or <<>> for no match
FNAME_groups(tool, f) ==
    IF \E ln \in 1..3, lk \in 1..(Len(f) - 10) :
          /\ Len(f) = 10 + ln + lk
          /\ f[1] = tool /\ f[2] = "-" /\ f[3] \in {"user", "kernel"}
          /\ SubSeq(f, 4, 5) = <<"metrics", "-">>
          /\ \A k \in 6..(5 + ln) : \E v \in 0..9 : Digit[v + 1] = f[k]
          /\ SubSeq(f, 6 + ln, 8 + ln) = <<"mcd", "-", "interval">>
          /\ \A k \in (9 + ln)..(8 + ln + lk) :
                f[k] = "." \/ \E v \in 0..9 : Digit[v + 1] = f[k]
          /\ SubSeq(f, 9 + ln + lk, 10 + ln + lk) = <<".", "csv">>
    THEN LET ln == CHOOSE ln \in 1..3 :
                      SubSeq(f, 6 + ln, 8 + ln) = <<"mcd", "-", "interval">>
         IN  <<f[3], SubSeq(f, 6, 5 + ln), SubSeq(f, 9 + ln, Len(f) - 2)>>
    ELSE <<>>

\* the files whose interval string is in intervals, by that string
available_files(files, tool, metric, mcd_num) ==
    LET ok == {f \in files :
                 /\ FNAME_groups(tool, f) # <<>>
                 /\ FNAME_groups(tool, f)[1] = metric
                 /\ Value(FNAME_groups(tool, f)[2]) = mcd_num
                 /\ FNAME_groups(tool, f)[3] \in cpu_intervals}
    IN  [s \in {FNAME_groups(tool, f)[3] : f \in ok} |->
            CHOOSE f \in ok : FNAME_groups(tool, f)[3] = s]

\* _collect_xmon_files, for one mcd_num
_collect_xmon_files(files, metric, mcd_num) ==
    available_files(files, "xmonitor", metric, mcd_num)

\* _collect_netdata_files, for one mcd_num
_collect_netdata_files(files, metric, mcd_num) ==
    available_files(files, "netdata", metric, mcd_num)

\* the numerals other producers of the same files write for the number x:
\* f"{x}", repr(float(x)), and the latter with one more digit
numerals(x) ==
    {format(x), float_repr(py_float(x.whole, x.frac)),
     float_repr(py_float(x.whole, x.frac)) \o <<"0">>}

\* a file name of the naming grammar with the numeral s as its interval
name_of(tool, metric, n, s, ext) ==
    <<tool, "-", metric, "metrics", "-">> \o str(n)
      \o <<"mcd", "-", "interval">> \o s \o <<".", ext>>

\* a directory with up to MaxFiles files named after one number, in the
\* order the directory is listed in, and the interval a script runs with
InitPlot ==
    /\ cfg \in {c \in Configs : c.script = "thr" /\ ~c.all_runs_in_0_4cores}
    /\ cells = main(cfg.script)
    /\ cur = NoCell
    /\ todo = <<>>
    /\ calls = <<>>
    /\ status = "running"
    /\ raised = "none"
    /\ completed = 0
    /\ db = 0
    /\ netdata = NoAgent
    /\ xdp = "none"
    /\ client = "none"
    /\ sampler = FALSE
    /\ loadgen = FALSE
    /\ TRACE_READERS = <<>>
    /\ handled = <<>>
    /\ stopping = FALSE
    /\ tracing_on = TRUE
    /\ trace = {}
    /\ fs = <<>>
    /\ dirs = {}
    /\ timestamp = 0
    /\ now = timestamp
    /\ warned = 0
    /\ result = NoResult
    /\ f_lines = <<>>
    /\ c_file = <<NUM_APP_line(5), <<"int counters[NUM_APP];", "\\n">>>>
    /\ conf = NoAgent
    /\ stdin = <<>>
    /\ failed = <<>>
    /\ \E y \in TOOL_INTERVALS, k \in 0..MaxFiles, x \in configured_intervals :
          \E fl \in [1..k -> {name_of(tool, "user", 1, num, ext) :
                                tool \in {"netdata", "xmonitor"},
                                num \in numerals(y), ext \in {"txt", "csv"}}] :
              /\ \A i, j \in 1..k : fl[i] = fl[j] => i = j
              /\ plot = [NoPlot EXCEPT !.files = fl, !.interval = x,
                                       !.stage = "listed"]

\* run_mutilate_for_netdata names the output of a cell that runs with the
\* interval plot.interval; the file is last in the directory
WriteArtifact ==
    /\ plot.stage = "listed"
    /\ LET f == basename(thr_netdata_out(0, 1, "user", plot.interval))
       IN  plot' = [plot EXCEPT
              !.files = IF \E i \in DOMAIN @ : @[i] = f THEN @
                        ELSE Append(@, f),
              !.stage = "written"]
    /\ UNCHANGED <<cfg, cells, cur, todo, calls, status, raised, completed, db,
                   netdata, xdp, client, sampler, loadgen, TRACE_READERS,
                   handled, stopping, tracing_on, trace, fs, dirs, timestamp,
                   now, failed, warned, result, f_lines, c_file, conf, stdin>>

\* throughput.py selects the file of every tool and interval
SelectFileForInterval ==
    /\ plot.stage = "written"
    /\ plot' = [plot EXCEPT
          !.selected = [k \in {"netdata", "xmonitor"} \X TOOL_INTERVALS |->
                          _select_file_for_interval(plot.files, k[1], "user",
                                                    1, k[2])],
          !.stage = "selected"]
    /\ UNCHANGED <<cfg, cells, cur, todo, calls, status, raised, completed, db,
                   netdata, xdp, client, sampler, loadgen, TRACE_READERS,
                   handled, stopping, tracing_on, trace, fs, dirs, timestamp,
                   now, failed, warned, result, f_lines, c_file, conf, stdin>>

\* cpu_utilization.py collects the files of either tool
CollectFiles ==
    /\ plot.stage = "selected"
    /\ plot' = [plot EXCEPT
          !.xmon = _collect_xmon_files({plot.files[i] : i \in DOMAIN plot.files},
                                       "user", 1),
          !.netdata = _collect_netdata_files(
                          {plot.files[i] : i \in DOMAIN plot.files}, "user", 1),
          !.stage = "collected"]
    /\ UNCHANGED <<cfg, cells, cur, todo, calls, status, raised, completed, db,
                   netdata, xdp, client, sampler, loadgen, TRACE_READERS,
                   handled, stopping, tracing_on, trace, fs, dirs, timestamp,
                   now, failed, warned, result, f_lines, c_file, conf, stdin>>

NextPlot == WriteArtifact \/ SelectFileForInterval \/ CollectFiles

SpecPlot == InitPlot /\ [][NextPlot]_vars

----------------------------------------------------------------------------
(* load_xdp on a kernel-program source file: the file is not part of the   *)
(* scripts, so its lines are an input                                      *)

\* lines of a source file
MaxLines == 2

\* lines a C source file of the kernel program can hold: the definition of
\* NUM_APP, alone or followed by a comment, the definition of a constant whose
\* name begins with NUM_APP, another definition, a line of code
SourceLines ==
    { NUM_APP_line(5),
      <<"#define NUM_APP", " ", "5", " /* instances */", "\n">>,
      <<"#define NUM_APP", "_MAX 64", "\n">>,
      <<"#define MAX_ENTRIES 64", "\n">>,
      <<"int counters[NUM_APP];", "\n">> }

SourceFiles == UNION {[1..k -> SourceLines] : k \in 1..MaxLines}

\* the control thread of cpu-utilization.py or experiment-throughput.py is
\* about to call load_xdp(metric, num_instance) in a cell of x_monitor_monitoring
\* the configuration globals with xdp_indirectcopy, which only load_xdp and the
\* name of the data directory read
PatchConfigs ==
    { c \in [script : {"cpu", "thr"}, ismemcached : BOOLEAN,
             enable_mutilate : BOOLEAN, all_runs_in_0_4cores : BOOLEAN,
             xdp_indirectcopy : BOOLEAN] :
        /\ (c.enable_mutilate => c.script = "cpu")
        /\ (c.all_runs_in_0_4cores => c.script = "thr") }

\* the attach script of the user metric class, with the redis variant named
\* after the direct copy
xdp_user_met_program_directcopy_redis ==
    IF cfg.ismemcached
    THEN IF cfg.xdp_indirectcopy
         THEN <<"xdp_user_indirectcopy", ".", "sh">>
         ELSE <<"xdp_user_directcopy", ".", "sh">>
    ELSE <<"xdp_user_directcopy_redis", ".", "sh">>

\* the module global xdp_user_met_program
xdp_user_met_program ==
    IF cfg.ismemcached
    THEN IF cfg.xdp_indirectcopy
         THEN <<"xdp_user_indirectcopy", ".", "sh">>
         ELSE <<"xdp_user_directcopy", ".", "sh">>
    ELSE <<"xdp_user_indirectcopy_redis", ".", "sh">>

\* c_name of load_xdp(metric = "user")
c_name ==
    IF cfg.ismemcached
    THEN IF cfg.xdp_indirectcopy
         THEN <<"xdp_user_indirectcopy", ".", "c">>
         ELSE <<"xdp_user_directcopy", ".", "c">>
    ELSE <<"xdp_user_indirectcopy_redis", ".", "c">>

\* exe_script of load_xdp
exe_script(metric) ==
    IF metric = "user" THEN xdp_user_met_program
    ELSE <<"xdp_kernel_directcopy", ".", "sh">>

InitPatch ==
    /\ cfg \in PatchConfigs
    /\ cells = <<>>
    /\ cur \in {main(cfg.script)[i] : i \in 1..Len(main(cfg.script))}
    /\ cur.method = "xmon"
    /\ todo = <<"load_xdp">>
    /\ calls = <<>>
    /\ status = "running"
    /\ raised = "none"
    /\ completed = 0
    /\ db = 0
    /\ netdata = NoAgent
    /\ xdp = "none"
    /\ client = "none"
    /\ sampler = FALSE
    /\ loadgen = FALSE
    /\ TRACE_READERS = <<>>
    /\ handled = <<>>
    /\ stopping = FALSE
    /\ tracing_on = TRUE
    /\ trace = {}
    /\ fs = <<>>
    /\ dirs = {}
    /\ timestamp = 0
    /\ now = timestamp
    /\ warned = 0
    /\ result = NoResult
    /\ f_lines = <<>>
    /\ c_file \in SourceFiles
    /\ conf = NoAgent
    /\ stdin = <<>>
    /\ failed = <<>>
    /\ plot = NoPlot

NextPatch == LoadXdp

SpecPatch == InitPatch /\ [][NextPatch]_vars

----------------------------------------------------------------------------
(* The throughput readers: graph/throughput.py reads mutilate's output,     *)
(* graph/throughput_for_redisbench.py reads redis-benchmark's               *)

\* lines of a file a plotting script reads
MaxLogLines == 3

\* a line is a sequence of pieces of text; " " is a run of white space and a
\* digit or a point is a piece of its own
IsNumeralChar(t) == t = "." \/ \E v \in 0..9 : Digit[v + 1] = t

\* the longest run of digits and points of line that starts at position i
RECURSIVE numeral_at(_, _)
numeral_at(line, i) ==
    IF i <= Len(line) /\ IsNumeralChar(line[i])
    THEN <<line[i]>> \o numeral_at(line, i + 1)
    ELSE <<>>

\* position after an optional run of white space at position i
skip_space(line, i) == IF i <= Len(line) /\ line[i] = " " THEN i + 1 ELSE i

\* re.search(r"Total QPS\s*=\s*([\d.]+)", line): group 1 of the leftmost
\* match, or <<>> when there is none
THROUGHPUT_RE(line) ==
    LET at(i) == LET e == skip_space(line, i + 1)
                 IN  IF line[i] = "Total QPS" /\ e <= Len(line) /\ line[e] = "="
                     THEN numeral_at(line, skip_space(line, e + 1))
                     ELSE <<>>
        hits == {i \in DOMAIN line : at(i) # <<>>}
    IN  IF hits = {} THEN <<>>
        ELSE at(CHOOSE i \in hits : \A j \in hits : i <= j)

\* re.search(r"GET:\s*rps=([\d.]+)", line)
RPS_RE(line) ==
    LET at(i) == LET e == skip_space(line, i + 1)
                 IN  IF line[i] = "GET:" /\ e <= Len(line) /\ line[e] = "rps="
                     THEN numeral_at(line, e + 1)
                     ELSE <<>>
        hits == {i \in DOMAIN line : at(i) # <<>>}
    IN  IF hits = {} THEN <<>>
        ELSE at(CHOOSE i \in hits : \A j \in hits : i <= j)

\* a rate in tenths: the numerals of the files have at most one digit after
\* the point
tenths(x) == x.whole * 10 + (IF x.frac = <<>> THEN 0 ELSE x.frac[1])

\* the reading loop of collect_throughput without its break
RECURSIVE collect_throughput_no_break(_)
collect_throughput_no_break(lines) ==
    IF lines = <<>> THEN <<>>
    ELSE (IF THROUGHPUT_RE(Head(lines)) # <<>>
          THEN <<tenths(float(THROUGHPUT_RE(Head(lines))))>> ELSE <<>>)
           \o collect_throughput_no_break(Tail(lines))

\* the reading loop of collect_throughput (throughput.py): what is appended to
\* data[label] for one file
RECURSIVE collect_throughput(_)
collect_throughput(lines) ==
    IF lines = <<>> THEN <<>>
    ELSE IF THROUGHPUT_RE(Head(lines)) # <<>>
         THEN <<tenths(float(THROUGHPUT_RE(Head(lines))))>>
         ELSE collect_throughput(Tail(lines))

\* _sum_rps_from_file (throughput_for_redisbench.py)
RECURSIVE _sum_rps_from_file(_)
_sum_rps_from_file(lines) ==
    IF lines = <<>> THEN 0
    ELSE (IF RPS_RE(Head(lines)) # <<>>
          THEN tenths(float(RPS_RE(Head(lines)))) ELSE 0)
           + _sum_rps_from_file(Tail(lines))

\* lines of the output of mutilate and of redis-benchmark
LogLines ==
    { <<"Total QPS", " ", "=", " ", "1", "2", ".", "5", " ", "(3750 / 300.0s)">>,
      <<"Total QPS", "=", "7">>,
      <<"Total QPS", " ", "9">>,
      <<"GET:", " ", "rps=", "3", ".", "5", " ", "(overall: 3.0)">>,
      <<"GET:", "rps=", "2">>,
      <<"read", " ", "1", "2", ".", "5">> }

LogFiles == UNION {[1..k -> LogLines] : k \in 0..MaxLogLines}

\* a plotting script has selected a file, one of files, and is about to read it
GraphInit(files, plots) ==
    /\ cfg \in {c \in Configs : c.script = "thr" /\ ~c.all_runs_in_0_4cores}
    /\ cells = main(cfg.script)
    /\ cur = NoCell
    /\ todo = <<>>
    /\ calls = <<>>
    /\ status = "running"
    /\ raised = "none"
    /\ completed = 0
    /\ db = 0
    /\ netdata = NoAgent
    /\ xdp = "none"
    /\ client = "none"
    /\ sampler = FALSE
    /\ loadgen = FALSE
    /\ TRACE_READERS = <<>>
    /\ handled = <<>>
    /\ stopping = FALSE
    /\ tracing_on = TRUE
    /\ trace = {}
    /\ fs = <<>>
    /\ dirs = {}
    /\ timestamp = 0
    /\ now = timestamp
    /\ warned = 0
    /\ c_file = <<>>
    /\ conf = NoAgent
    /\ stdin = <<>>
    /\ failed = <<>>
    /\ plot \in plots
    /\ f_lines \in files
    /\ result = NoResult

InitRead == GraphInit(LogFiles, {NoPlot})

Reads(fn, value) ==
    /\ result = NoResult
    /\ result' = [fn |-> fn, value |-> value]
    /\ UNCHANGED <<cfg, cells, cur, todo, calls, status, raised, completed, db,
                   netdata, xdp, client, sampler, loadgen, TRACE_READERS,
                   handled, stopping, tracing_on, trace, fs, dirs, timestamp,
                   now, plot, failed, warned, c_file, conf, stdin, f_lines>>

CollectThroughput == Reads("collect_throughput", collect_throughput(f_lines))

SumRpsFromFile == Reads("_sum_rps_from_file", _sum_rps_from_file(f_lines))

NextRead == CollectThroughput \/ SumRpsFromFile

SpecRead == InitRead /\ [][NextRead]_vars

----------------------------------------------------------------------------
(* graph/cpu_utilization.py: the CPU percentages of the pidstat output      *)

\* a line of the file is a sequence of pieces, each a sequence of characters;
\* the piece <<" ">> is a run of white space, any other piece is a field
Space == <<" ">>

\* line.startswith("Average:")
startswith_Average(line) == line # <<>> /\ line[1][1] = "Average:"

\* line.strip().split()
split(line) == SelectSeq(line, LAMBDA p : p # Space)

\* float(s) returns: s is digits with at most one point among them
is_float(s) ==
    /\ \A i \in DOMAIN s : IsNumeralChar(s[i])
    /\ \E i \in DOMAIN s : s[i] # "."
    /\ \A i, j \in DOMAIN s : (s[i] = "." /\ s[j] = ".") => i = j

\* usage[cmd] = cpu_pct
assign(usage, cmd, cpu_pct) ==
    [c \in (DOMAIN usage) \cup {cmd} |-> IF c = cmd THEN cpu_pct ELSE usage[c]]

\* what one line of the loop does to usage
parse_line(usage, line) ==
    IF ~startswith_Average(line) THEN usage
    ELSE LET parts == split(line)
         IN  IF Len(parts) < 10 THEN usage
             ELSE IF ~is_float(parts[8]) THEN usage
             ELSE assign(usage, parts[10], tenths(float(parts[8])))

\* a loop that leaves a command it has a value for as it is
RECURSIVE parse_netdata_csv_keep_first(_)
parse_netdata_csv_keep_first(lines) ==
    IF lines = <<>> THEN <<>>
    ELSE LET usage == parse_netdata_csv_keep_first(SubSeq(lines, 1, Len(lines) - 1))
             after == parse_line(usage, lines[Len(lines)])
         IN  [c \in DOMAIN after |-> IF c \in DOMAIN usage THEN usage[c] ELSE after[c]]

\* parse_netdata_csv: usage after the lines of the file, first to last
RECURSIVE parse_netdata_csv(_)
parse_netdata_csv(lines) ==
    IF lines = <<>> THEN <<>>
    ELSE parse_line(parse_netdata_csv(SubSeq(lines, 1, Len(lines) - 1)),
                    lines[Len(lines)])

\* the fields of a line of pidstat's averages, with the CPU percentage pct and
\* the command cmd
average_line(pct, cmd) ==
    <<<<"Average:">>, Space, <<"0">>, Space, <<"7">>, Space, <<"0", ".", "5">>,
      Space, <<"1">>, Space, <<"0">>, Space, <<"0">>, Space, pct, Space,
      <<"3">>, Space>> \o cmd

\* lines of the file pidstat's output is redirected to
PidstatLines ==
    { average_line(<<"%CPU">>, <<<<"CPU">>, Space, <<"Command">>>>),
      average_line(<<"1", ".", "5">>, <<<<"netdata">>>>),
      average_line(<<"2", ".", "5">>, <<<<"netdata">>>>),
      average_line(<<"4">>, <<<<"go.d.plugin">>>>),
      average_line(<<"6">>, <<<<"python3">>, Space, <<"loop.py">>>>),
      <<Space>> \o average_line(<<"8">>, <<<<"netdata">>>>),
      <<<<"12:00:01">>>> \o Tail(average_line(<<"9">>, <<<<"netdata">>>>)),
      <<<<"Average:">>, Space, <<"0">>, Space, <<"7">>, Space, <<"3">>>> }

PidstatFiles == UNION {[1..k -> PidstatLines] : k \in 0..MaxLogLines}

InitCsv == GraphInit(PidstatFiles, {NoPlot})

ParseNetdataCsv == Reads("parse_netdata_csv", parse_netdata_csv(f_lines))

NextCsv == ParseNetdataCsv

SpecCsv == InitCsv /\ [][NextCsv]_vars

----------------------------------------------------------------------------
(* graph/latency.py: the samples of the warm-up are left out of the plot    *)

\* samples of a latency file
MaxSamples == 16

\* 10 ** k
RECURSIVE pow10(_)
pow10(k) == IF k = 0 THEN 1 ELSE 10 * pow10(k - 1)

\* the digits ds as a number
RECURSIVE digits_value(_)
digits_value(ds) ==
    IF ds = <<>> THEN 0
    ELSE digits_value(SubSeq(ds, 1, Len(ds) - 1)) * 10 + ds[Len(ds)]

\* x * 10 ** Len(x.frac), a whole number
scaled(x) == x.whole * pow10(Len(x.frac)) + digits_value(x.frac)

\* int(15.0 / interval_sec), for interval_sec > 0
warmup_rows(interval_sec) ==
    (15 * pow10(Len(interval_sec.frac))) \div scaled(interval_sec)

\* cut_warmup that cuts whenever the count is positive
cut_warmup_no_length_check(exclude_warmup, latencies, interval_sec) ==
    IF ~exclude_warmup THEN latencies
    ELSE IF scaled(interval_sec) <= 0 THEN latencies
    ELSE IF warmup_rows(interval_sec) <= 0 THEN latencies
    ELSE SubSeq(latencies, warmup_rows(interval_sec) + 1, Len(latencies))

\* cut_warmup; exclude_warmup is the flag of the command line it closes over
cut_warmup(exclude_warmup, latencies, interval_sec) ==
    IF ~exclude_warmup THEN latencies
    ELSE IF scaled(interval_sec) <= 0 THEN latencies
    ELSE IF \/ warmup_rows(interval_sec) <= 0
            \/ warmup_rows(interval_sec) >= Len(latencies)
         THEN latencies
    ELSE SubSeq(latencies, warmup_rows(interval_sec) + 1, Len(latencies))

\* mode_dir: how the flag shows in the name of the output directory
mode_dir(exclude_warmup) ==
    IF exclude_warmup THEN "warmup-cut-enable" ELSE "warmup-cut-disable"

\* the intervals find_interval_files can read from a file name
latency_intervals ==
    {py_int(0), py_int(1), py_float(0, <<5>>), py_float(1, <<5>>), py_int(4),
     py_float(7, <<5>>), py_int(15), py_int(16)}

\* the samples of a file, each named by its row
LatencyFiles == {[i \in 1..n |-> i] : n \in 0..MaxSamples}

InitLatency ==
    GraphInit(LatencyFiles,
              {[NoPlot EXCEPT !.interval = x, !.stage = mode_dir(e)] :
                  x \in latency_intervals, e \in BOOLEAN})

CutWarmup ==
    Reads("cut_warmup",
          cut_warmup(plot.stage = "warmup-cut-enable", f_lines, plot.interval))

NextLatency == CutWarmup

SpecLatency == InitLatency /\ [][NextLatency]_vars

---------------------------------------------------------------------------
(* Vocabulary of the properties *)

\* index of the first call op of the current cell, 0 when it was not made
Pos(op) ==
    IF \E i \in DOMAIN calls : calls[i] = op
    THEN CHOOSE i \in DOMAIN calls :
            calls[i] = op /\ \A j \in DOMAIN calls : calls[j] = op => i <= j
    ELSE 0

Count(op) == Cardinality({i \in DOMAIN calls : calls[i] = op})

Made(ops) == \E i \in DOMAIN calls : calls[i] \in ops

Terminated == status \in {"done", "aborted"}

\* the loop body of the current cell has made its last call
CellFinished == status = "running" /\ cur # NoCell /\ todo = <<>>

DbStart == {"run_database", "run_database_for_netdata",
            "run_database_for_x_monitor", "run_database_for_no_monitor",
            "run_memcached"}

DbStop == {"stop_database", "stop_memcached"}

ClientStart == {"run_netdata_client_monitor", "run_x_monitor_client_monitor",
                "run_monitor"}

CaptureStart == ClientStart \cup {"calculate_x_monitor_cpu", "run_stats",
                                  "run_INFO", "calculate_stats_cpu",
                                  "calculate_netdata_cpu"}

CaptureStop == {"stop_monitoring_client_for_netdata",
                "stop_monitoring_client_for_x_monitor", "stop_bpf_tracepipe",
                "stop_stats", "stop_INFO"}

LoadGenPhases == {"load.sh", "run.sh"}

\* calls of calculate_x_monitor_cpu made since the last stop_bpf_tracepipe
StartsSinceStop ==
    Cardinality({i \in DOMAIN calls :
                   /\ calls[i] = "calculate_x_monitor_cpu"
                   /\ \A j \in DOMAIN calls :
                        j > i => calls[j] # "stop_bpf_tracepipe"})

---------------------------------------------------------------------------
(* Properties *)

\* C1: cleanup-always. When the client/load step of an experimental cell of
\* cpu-utilization.py (run_x_monitor_client_monitor, check=True) has raised,
\* detach_xdp, stop_bpf_tracepipe and stop_database have each been called
\* exactly once in that cell by the time the driver has ended.
C1_CleanupAlways ==
    (Terminated /\ raised = "run_x_monitor_client_monitor")
        => /\ Count("detach_xdp") = 1
           /\ Count("stop_bpf_tracepipe") = 1
           /\ Count("stop_database") = 1

\* C2: no cell skips teardown. When load_xdp has raised in a cell of
\* experiment-latency.py whose database was started, detach_xdp and
\* stop_database have been called in that cell by the time the driver has ended.
C2_TeardownAfterAttachFailure ==
    (Terminated /\ cfg.script = "lat" /\ raised = "load_xdp" /\ Made(DbStart))
        => Made({"detach_xdp"}) /\ Made(DbStop)

\* C3: no error aborts the whole run. When the driver has ended, after a
\* failure or not, every cell of the matrix has been started.
C3_MatrixContinues == Terminated => cells = <<>>

\* C4: at every instant of a run, TRACE_READERS holds at most one reader.
C4_AtMostOneCapture == Len(TRACE_READERS) <= 1

\* C4 witness: a later cell has its capture open after an earlier cell ran.
C4_Witness == Len(TRACE_READERS) = 1 /\ completed >= 1

\* C5 as claimed: a calculate_x_monitor_cpu called while a capture is open
\* opens no second reader, so one reader is registered however many starts
\* were called since the last stop.
C5_SecondStartRefused == StartsSinceStop >= 1 => Len(TRACE_READERS) = 1

\* C5 as amended: calculate_x_monitor_cpu has no guard. Every call since the
\* last stop, also one made while a capture is open, registered one reader.
C5_EveryStartRegisters == Len(TRACE_READERS) = StartsSinceStop

\* C5 witness: two starts with no stop between them, and two readers registered.
C5_Witness == StartsSinceStop = 2 /\ Len(TRACE_READERS) = 2

\* C6: stop_bpf_tracepipe is a barrier. Every reader the last call handled has
\* terminated, and its file has been flushed and closed.
C6_StopIsBarrier ==
    \A i \in DOMAIN handled :
        /\ handled[i].proc = "exited"
        /\ handled[i].synced
        /\ handled[i].f = "closed"

\* C7: in the calls of one cell, a database start precedes every capture
\* start, and every capture stop precedes the database stop.
C7_LifecycleOrdering ==
    /\ \A j \in DOMAIN calls :
          calls[j] \in CaptureStart
              => \E i \in DOMAIN calls : i < j /\ calls[i] \in DbStart
    /\ \A j \in DOMAIN calls :
          calls[j] \in DbStop
              => \A i \in DOMAIN calls : calls[i] \in CaptureStop => i < j

\* C7 witness: a finished cell that started a sampler and a client and stopped
\* both before it stopped the database.
C7_Witness ==
    /\ CellFinished
    /\ Made({"run_stats", "run_INFO"}) /\ Made(ClientStart)
    /\ Made({"stop_stats", "stop_INFO"}) /\ Made(DbStop)

\* C8: a finished experimental cell of cpu-utilization.py made its calls in the
\* order: start servers, attach, open the trace capture, client/load step,
\* stop the trace capture, detach, stop servers.
C8_ExperimentalCellOrder ==
    (CellFinished /\ cfg.script = "cpu" /\ cur.method = "xmon")
        => /\ 0 < Pos("run_database")
           /\ Pos("run_database") < Pos("load_xdp")
           /\ Pos("load_xdp") < Pos("calculate_x_monitor_cpu")
           /\ Pos("calculate_x_monitor_cpu") < Pos("run_x_monitor_client_monitor")
           /\ Pos("run_x_monitor_client_monitor") < Pos("stop_bpf_tracepipe")
           /\ Pos("stop_bpf_tracepipe") < Pos("detach_xdp")
           /\ Pos("detach_xdp") < Pos("stop_database")

C10_OneMethodActive ==
    Made(LoadGenPhases)
        => /\ cur.method \in {"xmon", "none"} => netdata = NoAgent
           /\ cur.method = "netdata" => xdp = "none"

---------------------------------------------------------------------------
(* C11 *)

\* C11: the database servers of a cell are started only after the servers of
\* the previous cell are confirmed stopped: no server runs while servers that
\* an earlier stop_database signalled have not exited yet.
C11_PreviousServersStopped == db > 0 => ~stopping

---------------------------------------------------------------------------
(* C12 *)

\* C12: cells run strictly one after another.  Whenever the loops go on to the
\* next cell, every call of the previous cell's body has returned, the
\* database was stopped in it, and its last call was the cool-down sleep: so
\* every teardown call and the sleep come before the first call of the next cell.
C12_CellsOneAfterAnother ==
    [][(cells' # cells /\ cur # NoCell) =>
          /\ todo = <<>>
          /\ calls # <<>>
          /\ calls[Len(calls)] = "sleep"
          /\ Made(DbStop)
          /\ \A i \in DOMAIN calls :
                calls[i] \in DbStop \cup CaptureStop => i < Len(calls)]_vars

\* the second repetition of experiment-throughput.py has reached the x-monitor
\* loop (after the no-monitoring and the netdata loop) and started its servers
C12_Witness ==
    /\ cfg.script = "thr"
    /\ cur.method = "xmon" /\ cur.cnt = 1
    /\ completed >= 2
    /\ Made(DbStart)

---------------------------------------------------------------------------
(* C13 *)

\* C13: stop_bpf_tracepipe is idempotent.  A call made right after another
\* call of it, with no capture opened in between, returns (no exception, no
\* reader to wait for): it finds the registry empty and leaves it empty, it
\* handles no reader (no wait, kill, flush or close is done again), and it
\* changes no file, directory or trace setting.
C13_StopIdempotent ==
    [][(/\ calls # <<>>
        /\ calls[Len(calls)] = "stop_bpf_tracepipe"
        /\ calls' = Append(calls, "stop_bpf_tracepipe")) =>
          /\ TRACE_READERS = <<>>
          /\ TRACE_READERS' = <<>>
          /\ handled' = <<>>
          /\ status' = "running" /\ raised' = "none"
          /\ UNCHANGED <<fs, dirs, tracing_on, trace>>]_vars

\* a capture was opened and stop_bpf_tracepipe was then called twice in a row
C13_Witness ==
    /\ Len(calls) >= 3
    /\ calls[Len(calls) - 2] = "calculate_x_monitor_cpu"
    /\ calls[Len(calls) - 1] = "stop_bpf_tracepipe"
    /\ calls[Len(calls)] = "stop_bpf_tracepipe"
    /\ DOMAIN fs # {}

---------------------------------------------------------------------------
(* C14 *)

---------------------------------------------------------------------------
(* C15 *)

\* C15: the trace buffer is cleared before a capture.  In a cell of
\* cpu-utilization.py in which the trace reader has been opened, recording was
\* disabled, then the buffer truncated, then recording re-enabled, and all
\* three had returned before the reader was opened; and no output file of a
\* reader holds an entry that was recorded before the reader's cell began.
C15_ClearedBeforeCapture ==
    /\ (cfg.script = "cpu" /\ Made({"calculate_x_monitor_cpu"})) =>
          /\ 0 < Pos("echo 0 > tracing_on")
          /\ Pos("echo 0 > tracing_on") < Pos(": > trace")
          /\ Pos(": > trace") < Pos("echo 1 > tracing_on")
          /\ Pos("echo 1 > tracing_on") < Pos("calculate_x_monitor_cpu")
    /\ \A i \in DOMAIN TRACE_READERS : "stale" \notin TRACE_READERS[i].data
    /\ \A i \in DOMAIN handled : "stale" \notin handled[i].data

\* in a cell after the first, the reader has written entries of the cell to
\* its output file
C15_Witness ==
    /\ cfg.script = "cpu"
    /\ completed >= 1
    /\ \E i \in DOMAIN TRACE_READERS : TRACE_READERS[i].data = {"fresh"}

---------------------------------------------------------------------------
(* C16 *)

---------------------------------------------------------------------------
(* C17 *)

\* C17: an output path that already exists is not overwritten: no file is
\* opened for writing (created or truncated) a second time
C17_ExistingPathNotOverwritten ==
    \A p \in DOMAIN fs : fs[p].writes <= 1

---------------------------------------------------------------------------
(* C18 *)

---------------------------------------------------------------------------
(* C19 *)

\* {N:03d}
ThreeDigits(n) ==
    <<Digit[(n \div 100) + 1], Digit[((n \div 10) % 10) + 1], Digit[(n % 10) + 1]>>

\* {dataDir}/{repeatIndex}/{N:03d}{unit} for the script with a repeat loop,
\* {dataDir}/{N:03d}{unit} for the scripts without one
OutputDirectory(c) ==
    IF cfg.script = "thr"
    THEN data_dir \o <<"/">> \o str(c.cnt) \o <<"/">> \o ThreeDigits(c.n)
           \o <<unit>>
    ELSE data_dir \o <<"/">> \o ThreeDigits(c.n) \o <<unit>>

---------------------------------------------------------------------------
(* C20 *)

\* ds is the decimal numeral of n without zero padding
Unpadded(ds, n) ==
    /\ ds # <<>>
    /\ \A i \in DOMAIN ds : \E v \in 0..9 : Digit[v + 1] = ds[i]
    /\ Len(ds) = 1 \/ ds[1] # "0"
    /\ Value(ds) = n

\* ds is a decimal numeral of the number x: its whole part, and after a point
\* the digits of its fraction
IsDecimal(ds, x) ==
    \/ x.frac = <<>> /\ Unpadded(ds, x.whole)
    \/ \E p \in DOMAIN ds :
          /\ ds[p] = "."
          /\ Unpadded(SubSeq(ds, 1, p - 1), x.whole)
          /\ Len(ds) - p >= 1 /\ Len(ds) - p >= Len(x.frac)
          /\ \A i \in 1..(Len(ds) - p) :
                /\ \E v \in 0..9 : Digit[v + 1] = ds[p + i]
                /\ DigitValue(ds[p + i])
                     = (IF i <= Len(x.frac) THEN x.frac[i] ELSE 0)

\* {tool}-{metricClass}metrics-{N}{unit}-interval{interval}.{ext}
IsMetricsName(name, tool, c, ext) ==
    \E ln \in 1..3, lk \in 1..6 :
        /\ Len(name) = 10 + ln + lk
        /\ SubSeq(name, 1, 5) = <<tool, "-", c.metric, "metrics", "-">>
        /\ Unpadded(SubSeq(name, 6, 5 + ln), c.n)
        /\ SubSeq(name, 6 + ln, 8 + ln) = <<unit, "-", "interval">>
        /\ IsDecimal(SubSeq(name, 9 + ln, 8 + ln + lk), c.interval)
        /\ SubSeq(name, 9 + ln + lk, 10 + ln + lk) = <<".", ext>>

\* no_monitoring-{N}{unit}.txt
IsNoMonitoringName(name, c) ==
    \E ln \in 1..3 :
        /\ Len(name) = 5 + ln
        /\ SubSeq(name, 1, 2) = <<"no_monitoring", "-">>
        /\ Unpadded(SubSeq(name, 3, 2 + ln), c.n)
        /\ SubSeq(name, 3 + ln, 5 + ln) = <<unit, ".", "txt">>

---------------------------------------------------------------------------
(* C21 *)

\* the directory holds a file of the tool, for metric class user and one
\* instance, with the extension ext, whose interval numeral reads as number t
HasFileOf(tool, t, ext) ==
    \E i \in DOMAIN plot.files :
        \E num \in numerals(t) \cup {format(plot.interval)} :
            /\ plot.files[i] = name_of(tool, "user", 1, num, ext)
            /\ close(float(num), t)

\* C21: every plotting consumer matches the interval suffix by number and not
\* by string: once throughput.py has selected and cpu_utilization.py has
\* collected, for every tool and target interval a file of the directory
\* whose suffix parses to the target (interval1.0 for the target 1) has been
\* selected, by _select_file_for_interval and by _collect_xmon_files and
\* _collect_netdata_files alike.
C21_SelectedByNumber ==
    plot.stage = "collected" =>
        \A t \in TOOL_INTERVALS :
            /\ \A tool \in {"netdata", "xmonitor"} :
                  HasFileOf(tool, t, "txt") =>
                      \E f \in plot.selected[<<tool, t>>] :
                          close(float(interval_txt(f)), t)
            /\ HasFileOf("xmonitor", t, "csv") =>
                  \E s \in DOMAIN plot.xmon : close(float(s), t)
            /\ HasFileOf("netdata", t, "csv") =>
                  \E s \in DOMAIN plot.netdata : close(float(s), t)

---------------------------------------------------------------------------
(* C22 *)

\* C22: interval round trip.  For every interval an experiment script is
\* configured with, the file run_mutilate_for_netdata names for it is matched
\* by the consumer's pattern interval([0-9.]+)\.txt$, and the matched suffix
\* parses back to the interval (within 1e-9).
C22_IntervalRoundTrip ==
    plot.stage \in {"written", "selected", "collected"} =>
        LET f == basename(thr_netdata_out(0, 1, "user", plot.interval))
        IN  /\ \E i \in DOMAIN plot.files : plot.files[i] = f
            /\ interval_txt(f) # <<>>
            /\ close(float(interval_txt(f)), plot.interval)

\* the file of the smallest configured interval, 0.0001, has been written
C22_Witness ==
    /\ plot.stage = "written"
    /\ plot.interval = py_float(0, <<0, 0, 0, 1>>)
    /\ interval_txt(plot.files[Len(plot.files)])
         = <<"0", ".", "0", "0", "0", "1">>

---------------------------------------------------------------------------
(* C23 *)

\* the stop call op finds no process to signal
NothingToStop(op) ==
    \/ op \in DbStop /\ db = 0 /\ ~sampler
    \/ op \in {"stop_monitoring_client_for_netdata",
               "stop_monitoring_client_for_x_monitor"} /\ client = "none"
    \/ op \in {"stop_stats", "stop_INFO"} /\ ~sampler
    \/ op \in {"stop_mutilate", "stop_redisbench"} /\ ~loadgen

\* C23: a stop operation (stop_database, stop_monitoring_client_*, stop_stats,
\* stop_INFO, stop_mutilate) that finds nothing running is a no-op: it raises
\* nothing, changes no process, and the control thread goes on with the next
\* call of the teardown, the cells still to run untouched.
C23_StopWithNothingRunning ==
    [][(/\ status = "running" /\ todo # <<>>
        /\ NothingToStop(Head(todo))
        /\ calls' = Append(calls, Head(todo)))
       => (/\ status' = "running" /\ raised' = "none"
           /\ todo' = Tail(todo)
           /\ UNCHANGED <<db, client, sampler, loadgen, stopping, cells, cur>>)
      ]_vars

\* a kernel-metric cell, whose sampler is never started, has called the
\* sampler's stop and gone on to stop the servers
C23_Witness ==
    /\ status = "running"
    /\ ~Made({"run_stats", "run_INFO"})
    /\ Made({"stop_stats", "stop_INFO"})
    /\ Made(DbStop)
    /\ Pos("stop_stats") + Pos("stop_INFO") < Pos("stop_database")

---------------------------------------------------------------------------
(* C24 *)

\* the calls that measure: load generator phases and captures
MeasurementSteps == LoadGenPhases \cup CaptureStart

\* C24: a remote command whose connection fails is fatal for its cell only:
\* after the failed call the control thread makes no further measurement call
\* of that cell (only cleanup), and the run is not ended by it.  Stated for
\* experiment-throughput.py and experiment-latency.py.
C24_FailedCellAbandoned ==
    cfg.script \in {"thr", "lat"} =>
        \A i \in DOMAIN failed :
            /\ failed[i].cell = cur =>
                  \A j \in DOMAIN calls :
                      j > Pos(failed[i].op) => calls[j] \notin MeasurementSteps
            /\ status = "aborted" => raised # failed[i].op

---------------------------------------------------------------------------
(* C25 *)

\* C25: experiment-throughput.py runs every cell of the matrix exactly once,
\* in the order of the nesting repeat index, method, metric class, instance
\* count, interval: the cells begun so far are the first cells of that order,
\* each once, the current one the last of them, and when the driver has ended
\* no cell is left.
C25_EveryCellOnce ==
    cfg.script = "thr" =>
        LET M == main("thr")
            k == Len(M) - Len(cells)
        IN  /\ k >= 0 /\ cells = SubSeq(M, k + 1, Len(M))
            /\ IF k = 0 THEN cur = NoCell ELSE cur = M[k]
            /\ \A i, j \in DOMAIN M : M[i] = M[j] => i = j
            /\ Terminated => cells = <<>>

---------------------------------------------------------------------------
(* C26 *)

\* C26: the baseline (netdata) monitoring client is given on standard input
\* exactly two newline-terminated values, in this order: the interval of the
\* cell, then the metric-class flag, which is 1 if the metric class is user
\* and 0 otherwise.
C26_IntervalThenFlag ==
    (cur # NoCell /\ Made({"run_netdata_client_monitor", "run_monitor"})) =>
        \E k \in 1..(Len(stdin) - 3) :
            /\ Len(stdin) = k + 3
            /\ IsDecimal(SubSeq(stdin, 1, k), cur.interval)
            /\ stdin[k + 1] = "\n"
            /\ stdin[k + 2] = (IF cur.metric = "user" THEN "1" ELSE "0")
            /\ stdin[k + 3] = "\n"

\* the netdata client of a kernel-metric cell has been started with flag 0
C26_Witness ==
    /\ Made({"run_netdata_client_monitor"})
    /\ cur.metric = "kernel"
    /\ stdin = format(cur.interval) \o <<"\n", "0", "\n">>

---------------------------------------------------------------------------
(* C27 *)

\* the call made right after the first call op, if one has been made
NextAfter(op) ==
    IF Pos(op) > 0 /\ Pos(op) < Len(calls) THEN calls[Pos(op) + 1] ELSE "none"

\* C27 (as the specification states it): in cpu-utilization.py,
\* experiment-throughput.py and experiment-sample.py, run_netdata copies the
\* instance-count and the metric-class configuration file, reloads, restarts
\* the agent and then waits a settle delay, in this order, before the next
\* call of the cell.
C27_CopyReloadRestartSettle ==
    (cfg.script # "lat" /\ Made({"restart_netdata"})) =>
        /\ 0 < Pos("cp_instance_conf")
        /\ Pos("cp_instance_conf") < Pos("cp_plugin_conf")
        /\ Pos("cp_plugin_conf") < Pos("daemon-reload")
        /\ Pos("daemon-reload") < Pos("restart_netdata")
        /\ NextAfter("restart_netdata") \in {"none", "settle"}

\* C27 (amended): in every script run_netdata copies the instance-count and
\* then the metric-class configuration file and restarts the agent after
\* both; all scripts but experiment-sample.py reload (daemon-reload) between
\* the copies and the restart; only cpu-utilization.py waits a settle delay
\* after the restart, the other scripts return at once.
C27_CopyThenRestart ==
    Made({"restart_netdata"}) =>
        /\ 0 < Pos("cp_instance_conf")
        /\ Pos("cp_instance_conf") < Pos("cp_plugin_conf")
        /\ Pos("cp_plugin_conf") < Pos("restart_netdata")
        /\ IF cfg.script = "sample" THEN ~Made({"daemon-reload"})
           ELSE /\ Pos("cp_plugin_conf") < Pos("daemon-reload")
                /\ Pos("daemon-reload") < Pos("restart_netdata")
        /\ IF IsCpu THEN NextAfter("restart_netdata") \in {"none", "settle"}
           ELSE ~Made({"settle"})
        /\ netdata = [n |-> cur.n, metric |-> cur.metric]

\* netdata_monitoring of cpu-utilization.py has configured the agent for a
\* kernel-metric cell, waited, and gone on
C27_Witness ==
    /\ cfg.script = "cpu_ntd" /\ cur.metric = "kernel"
    /\ NextAfter("restart_netdata") = "settle"
    /\ NextAfter("settle") # "none"
    /\ netdata = [n |-> cur.n, metric |-> "kernel"]

---------------------------------------------------------------------------
(* C28 *)

\* the calls that start the monitoring capture of a baseline cell
BaselineCapture == ClientStart \cup {"calculate_netdata_cpu"}

\* C28: in every baseline cell, once the monitoring capture has been started,
\* the configuration files installed are those of the cell's instance count
\* and metric class, and the agent was restarted after they were installed
\* and before the capture started, so it runs with them and not with the
\* configuration of an earlier cell.
C28_AgentConfiguredForCell ==
    (cur.method = "netdata" /\ Made(BaselineCapture)) =>
        /\ conf = [n |-> cur.n, metric |-> cur.metric]
        /\ netdata = conf
        /\ \A i \in DOMAIN calls :
              calls[i] \in BaselineCapture =>
                  /\ 0 < Pos("cp_instance_conf")
                  /\ Pos("cp_instance_conf") < Pos("restart_netdata")
                  /\ 0 < Pos("cp_plugin_conf")
                  /\ Pos("cp_plugin_conf") < Pos("restart_netdata")
                  /\ Pos("restart_netdata") < i

\* experiment-throughput.py has finished baseline cells of the other metric
\* class and started the capture of a kernel-metric baseline cell
C28_Witness ==
    /\ cfg.script = "thr"
    /\ cur.method = "netdata" /\ cur.metric = "kernel"
    /\ completed >= 2
    /\ Made({"run_netdata_client_monitor"})
    /\ netdata = [n |-> cur.n, metric |-> "kernel"]

----------------------------------------------------------------------------
(* C29 *)

\* the line defines the constant named NUM_APP
IsNumAppDefinition(line) ==
    Len(line) > 1 /\ line[1] = "#define NUM_APP" /\ line[2] = " "

\* C29: load_xdp with metric user changes, in the source file, only the
\* definition of NUM_APP, which becomes the definition with the instance count
\* of the cell; every other line, the number of lines and their order stay as
\* they were; with metric kernel the file stays as it was
C29_OnlyNumAppChanges ==
    [][calls' = Append(calls, "load_xdp") =>
         IF cur.metric = "user"
         THEN /\ Len(c_file') = Len(c_file)
              /\ \A i \in 1..Len(c_file) :
                   c_file'[i] = IF IsNumAppDefinition(c_file[i])
                                THEN NUM_APP_line(cur.n)
                                ELSE c_file[i]
         ELSE c_file' = c_file]_vars

----------------------------------------------------------------------------
(* C30 *)

\* calls that stop a capture or take the cell down
TeardownCalls ==
    CaptureStop \cup DbStop \cup {"stop_mutilate", "stop_redisbench", "detach_xdp"}

\* the load phase has returned before the run phase is started
LoadBeforeRun ==
    \A j \in DOMAIN calls :
        calls[j] = "run.sh" => \E i \in 1..(j - 1) : calls[i] = "load.sh"

----------------------------------------------------------------------------
(* C31 *)

SamplerStart == {"run_stats", "run_INFO"}

SamplerStop == {"stop_stats", "stop_INFO"}

----------------------------------------------------------------------------
(* C32 *)

\* lines of the file read that carry the total rate / a per-line rate
QpsLines == {i \in DOMAIN f_lines : THROUGHPUT_RE(f_lines[i]) # <<>>}

RpsLines == {i \in DOMAIN f_lines : RPS_RE(f_lines[i]) # <<>>}

\* the sum of the rates, in tenths, of the lines S of the file read
RECURSIVE RateSum(_)
RateSum(S) ==
    IF S = {} THEN 0
    ELSE LET i == CHOOSE i \in S : TRUE
         IN  tenths(float(RPS_RE(f_lines[i]))) + RateSum(S \ {i})

\* C32: for the single-aggregate format the value of a file is the rate of the
\* first line that carries the total rate, whatever lines follow it; for the
\* per-line format the value is the sum of the rates of all lines that carry
\* one, 0 for a file with none
C32_ThroughputPerMethod ==
    /\ (result.fn = "collect_throughput" /\ QpsLines # {}) =>
          result.value =
             <<tenths(float(THROUGHPUT_RE(
                 f_lines[CHOOSE i \in QpsLines : \A j \in QpsLines : i <= j])))>>
    /\ result.fn = "_sum_rps_from_file" => result.value = RateSum(RpsLines)
    /\ (result.fn = "_sum_rps_from_file" /\ RpsLines = {}) => result.value = 0

\* a file with two lines of different total rates has been read
C32_Witness ==
    /\ result.fn = "collect_throughput"
    /\ \E i, j \in QpsLines :
          i < j /\ THROUGHPUT_RE(f_lines[i]) # THROUGHPUT_RE(f_lines[j])
    /\ Len(result.value) = 1

----------------------------------------------------------------------------
(* C33 *)

\* the fields of line i of the file read
Fields(i) == SelectSeq(f_lines[i], LAMBDA p : p # Space)

\* line i is one parse_netdata_csv reads: it begins with the marker, has ten
\* fields or more, and its eighth field is a number
IsRead(i) ==
    /\ f_lines[i] # <<>> /\ f_lines[i][1] = <<"Average:">>
    /\ Len(Fields(i)) >= 10
    /\ is_float(Fields(i)[8])

\* C33: the usage parse_netdata_csv returns has exactly the commands that are
\* the tenth field of a line that begins with Average:, has at least ten
\* fields and a number as its eighth, and gives each the eighth field of the
\* last such line
C33_LastAverageWins ==
    result.fn = "parse_netdata_csv" =>
        /\ DOMAIN result.value =
              {Fields(i)[10] : i \in {j \in DOMAIN f_lines : IsRead(j)}}
        /\ \A i \in DOMAIN f_lines :
              (/\ IsRead(i)
               /\ \A j \in DOMAIN f_lines :
                     (j > i /\ IsRead(j)) => Fields(j)[10] # Fields(i)[10])
                 => result.value[Fields(i)[10]] = tenths(float(Fields(i)[8]))

\* a file with two read lines of the same command and different percentages,
\* and a line that is passed over, has been parsed
C33_Witness ==
    /\ result.fn = "parse_netdata_csv"
    /\ \E i, j \in DOMAIN f_lines :
          /\ i < j /\ IsRead(i) /\ IsRead(j)
          /\ Fields(i)[10] = Fields(j)[10]
          /\ Fields(i)[8] # Fields(j)[8]
    /\ \E i \in DOMAIN f_lines : ~IsRead(i)

----------------------------------------------------------------------------
(* C34 *)

----------------------------------------------------------------------------
(* C35 *)

\* positions of the calls of ops in the current cell
Positions(ops) == {i \in DOMAIN calls : calls[i] \in ops}

\* C35: as long as no call has raised, a cell attaches at most once, after its
\* database start, and detaches at most once, after its attach; the program is
\* attached exactly between the two; when the cell has made its last call, and
\* when main has returned, nothing is attached, so that the load_xdp of the
\* next cell follows the one detach_xdp of this one
C35_AttachDetachAlternate ==
    raised = "none" =>
        /\ Cardinality(Positions({"load_xdp"})) <= 1
        /\ Cardinality(Positions({"detach_xdp"})) <= 1
        /\ \A j \in Positions({"load_xdp"}) :
              \E i \in Positions(DbStart) : i < j
        /\ \A j \in Positions({"detach_xdp"}) :
              \E i \in Positions({"load_xdp"}) : i < j
        /\ (xdp # "none") <=>
              (Made({"load_xdp"}) /\ ~Made({"detach_xdp"}))
        /\ todo = <<>> => xdp = "none"
        /\ status = "done" => xdp = "none"

\* main has returned after two cells or more, the last of which attached and
\* detached
C35_Witness ==
    /\ status = "done" /\ raised = "none"
    /\ completed >= 2
    /\ Made({"load_xdp"}) /\ Made({"detach_xdp"})
    /\ xdp = "none"

----------------------------------------------------------------------------
(* C36 *)

\* C36: a notification that fails changes nothing but the count of warnings:
\* the control thread stays where it is and no exception leaves log_to_slack,
\* so the lifecycle calls of the run are those of a run in which every
\* notification succeeds
C36_NotificationFailureContained ==
    [][warned' # warned =>
         /\ status' = "running" /\ raised' = "none"
         /\ UNCHANGED <<cfg, cells, cur, todo, calls, completed, db, netdata,
                        xdp, client, sampler, loadgen, TRACE_READERS, handled,
                        stopping, tracing_on, trace, fs, dirs>>]_vars

\* main has returned after cells that followed failed notifications
C36_Witness ==
    /\ warned >= 1
    /\ status = "done"
    /\ completed >= 2

----------------------------------------------------------------------------
(* C37 *)

\* os.path.splitext of a file name: the name before its last point, and the
\* extension after it
Stem(name) == SubSeq(name, 1, Len(name) - 2)

Ext(name) == name[Len(name)]

\* C37: whatever ismemcached and xdp_indirectcopy are, the source file that
\* load_xdp patched for the user metric class and the attach script it then
\* ran have the same name up to the extension, c for the one and sh for the
\* other
C37_SameProgramVariant ==
    (Made({"load_xdp"}) /\ cur.metric = "user") =>
        /\ Stem(c_name) = Stem(exe_script(cur.metric))
        /\ Ext(c_name) = "c"
        /\ Ext(exe_script(cur.metric)) = "sh"

\* load_xdp has run for the user metric class with the redis servers
C37_Witness ==
    /\ Made({"load_xdp"}) /\ cur.metric = "user"
    /\ ~cfg.ismemcached /\ ~cfg.xdp_indirectcopy
    /\ xdp = "user"

----------------------------------------------------------------------------
(* C38 *)

\* floor(15 / x) for x > 0: the k with k * x <= 15 < (k + 1) * x
Floor15(x) ==
    CHOOSE k \in 0..(15 * pow10(Len(x.frac))) :
        /\ k * scaled(x) <= 15 * pow10(Len(x.frac))
        /\ 15 * pow10(Len(x.frac)) < (k + 1) * scaled(x)

\* C38: with the exclusion of the warm-up enabled, cut_warmup returns the
\* samples without their first floor(15 / interval), unless the interval is
\* not positive, or that count is zero or not below the number of samples:
\* then it returns the samples as they are; samples that are not empty are
\* never cut down to nothing
C38_CutWarmup ==
    (result.fn = "cut_warmup" /\ plot.stage = "warmup-cut-enable") =>
        /\ result.value =
              IF scaled(plot.interval) <= 0 THEN f_lines
              ELSE IF \/ Floor15(plot.interval) = 0
                      \/ Floor15(plot.interval) >= Len(f_lines)
                   THEN f_lines
              ELSE [i \in 1..(Len(f_lines) - Floor15(plot.interval)) |->
                       f_lines[i + Floor15(plot.interval)]]
        /\ f_lines # <<>> => result.value # <<>>

\* sixteen samples taken every second have lost the first fifteen
C38_Witness ==
    /\ result.fn = "cut_warmup" /\ plot.stage = "warmup-cut-enable"
    /\ plot.interval = py_int(1)
    /\ Len(f_lines) = 16
    /\ result.value = <<16>>

====
